---- MODULE Spec2Model ----
(***************************************************************************)
(* The agent coordination hub of lib/multi-agent: AgentHub (registry,      *)
(* single-flight message queue, assignTask, the direct-call                *)
(* coordinateICPAnalysis) and BaseAgent (processMessage / handleRequest).  *)
(* One TLA+ step is one synchronous segment of JavaScript: the code that   *)
(* runs between two awaits of the event loop.                              *)
(* The search engine LangGraphSearchEngine: its StateGraph of eight nodes  *)
(* over SearchStateAnnotation; there one step is one node execution        *)
(* (a LangGraph superstep) with the outcomes of its awaited calls chosen.  *)
(***************************************************************************)
EXTENDS Integers, Sequences, FiniteSets, TLC

\* ------------------------------------------------------------------ bounds
MaxCalls == 3
MaxRuns == 1
MaxOps == 2
MaxCandidates == 3
MaxQueueLen == 2
MaxSubQueries == 3
MaxSteps == 12

\* ------------------------------------------------------- program constants
AgentIds == {"a1", "a2"}
Ghost == "ghost"
Coordinator == "coordinator"
\* JavaScript's undefined and the empty object literal {}, as records so that
\* they compare with the objects a slot can hold
Undefined == [undefined |-> TRUE]
EmptyObject == [keys |-> {}]

CI == "customer-intelligence"
MR == "market-research"
FA == "firmographic-analysis"
TA == "technographic-analysis"
PA == "psychographic-analysis"
TCD == "target-company-discovery"
Other == "industry-reports"

dataGatheringTasks == << CI, MR, FA, TA, PA >>
GatheringTypes == {CI, MR, FA, TA, PA}
TaskTypes == GatheringTypes \cup {TCD, Other}

\* MultiAgentConfig.priorityWeights as defaulted by MultiAgentICPEngine
priorityWeights ==
  [t \in GatheringTypes \cup {TCD} |->
     CASE t = CI -> 10 [] t = MR -> 9 [] t = FA -> 8
       [] t = TA -> 7 [] t = PA -> 6 [] OTHER -> 5]

Priorities == {1, 6}
MessageTypes == {"request", "status"}
EventTypes == {"agent-started", "agent-completed", "agent-error",
               "data-shared", "task-assigned", "task-completed"}
Emitters == AgentIds \cup {Coordinator}

\* AgentCapability lists the agents are constructed with (constructor
\* argument `capabilities`); an agent may name a type in several capabilities.
Cap(types) == [inputTypes |-> types]
DefaultCapabilities ==
  [a \in AgentIds |->
     IF a = "a1" THEN << Cap(<< CI, MR, FA >>) >>
     ELSE << Cap(<< CI, TA >>), Cap(<< PA, TCD, CI >>) >>]
CapabilityMenu ==
  { << >>,
    << Cap(<< >>) >>,
    << Cap(<< CI, MR, FA >>) >>,
    << Cap(<< CI, TA >>), Cap(<< PA, TCD, CI >>) >>,
    << Cap(<< Other >>), Cap(<< TCD >>) >> }

VARIABLES
  agents,             \* AgentHub.agents: registered ids in Map insertion order
  eventCallbacks,     \* AgentHub.eventCallbacks: the listeners, in call order
  messageQueue,       \* AgentHub.messageQueue
  isProcessing,       \* AgentHub.isProcessing
  agent,              \* BaseAgent.agent per agent object (status, currentTask, ...)
  agentMessageQueue,  \* BaseAgent.messageQueue per agent object (id, type)
  executing,          \* executeTask invocations in progress (pending promises)
  call,               \* position of each sendMessage call (by message id)
  runs,               \* position and locals of each coordinateICPAnalysis call
  events,             \* events delivered to the hub's listeners, counted
  dequeued,           \* per message id: times shifted off the hub queue
  delivered,          \* per message id: times passed to processMessage
  execCalls,          \* per agent: executeTask calls made by handleRequest
  idleRequests,       \* per agent: request messages that arrived while idle
  nextId,             \* next message id
  calls,              \* queue-path API calls made so far
  lastOp,             \* the API call made by the last step, with its outcome
  candidates,         \* argument list of the last selectBestAgent call
  selected,           \* result of the last selectBestAgent call (per priority)
  state,              \* SearchState of the graph run started by search()
  node,               \* the node the graph runs next; START, END, or threw
  steps,              \* supersteps executed by graph.invoke
  searchEvents,       \* SearchEvents handed to onEvent: counts and the last one
  lastBatch,          \* the last update merged into state.sources
  lastCheck,          \* the answer check of the analyze step just taken
  retrieval,          \* firecrawl.search calls: any made, any returned, and
                      \* the queries issued since searchQueries was last planned,
                      \* and the scrapeUrl calls of the last scrape step
  gatheredData,       \* argument of a calculateOverallConfidence call
  overallConfidence,  \* what that call returned
  synthesisTask,      \* an ICPSynthesisAgent task with the LLM's three answers
  synthesisResult     \* how ICPSynthesisAgent.executeTask settled for it

hubVars == << agents, eventCallbacks, messageQueue, isProcessing, agent,
              agentMessageQueue, executing, call, events, dequeued, delivered,
              execCalls, idleRequests, nextId >>
graphVars ==
  << state, node, steps, searchEvents, lastBatch, lastCheck, retrieval >>
functionVars ==
  << gatheredData, overallConfidence, synthesisTask, synthesisResult >>
engineVars == << graphVars, functionVars >>
coordinationVars ==
  << agents, eventCallbacks, messageQueue, isProcessing, agent,
     agentMessageQueue, executing, call, runs, events, dequeued, delivered,
     execCalls, idleRequests, nextId, calls, lastOp, candidates, selected >>
vars == << agents, eventCallbacks, messageQueue, isProcessing, agent,
           agentMessageQueue,
           executing, call, runs, events, dequeued, delivered, execCalls,
           idleRequests, nextId, calls, lastOp, candidates, selected,
           state, node, steps, searchEvents, lastBatch, lastCheck, retrieval,
           gatheredData, overallConfidence, synthesisTask, synthesisResult >>

MessageIds == 1..(MaxCalls * Cardinality(AgentIds))
RunIds == 1..MaxRuns

\* ----------------------------------------------------------------- helpers
RECURSIVE SeqContains(_, _)
SeqContains(seq, x) ==
  IF seq = << >> THEN FALSE
  ELSE IF Head(seq) = x THEN TRUE ELSE SeqContains(Tail(seq), x)

Range(seq) == { seq[i] : i \in 1..Len(seq) }

Emit(ev, type, who) == [ev EXCEPT ![<< type, who >>] = @ + 1]

\* The listeners a client can register with the hub: the onProgress
\* callback of an analysis call, some other callback that returns, and one
\* that throws.
OnProgress == "onProgress"
Listener == "listener"
Thrower == "thrower"
\* an optional callback parameter that was not passed
NoCallback == "undefined"

\* emitEvent: eventCallbacks.forEach(callback => callback(event)) throws out
\* of the loop at the first callback that throws
emitEventThrows(callbacks) == SeqContains(callbacks, Thrower)

\* addEventListener pushes; removeEventListener splices the first
\* occurrence (indexOf), if any
addEventListener(callbacks, callback) == Append(callbacks, callback)
RECURSIVE removeEventListener(_, _)
removeEventListener(callbacks, callback) ==
  IF callbacks = << >> THEN << >>
  ELSE IF Head(callbacks) = callback THEN Tail(callbacks)
  ELSE << Head(callbacks) >> \o removeEventListener(Tail(callbacks), callback)

\* --------------------------------------------------------------- BaseAgent
\* BaseAgent constructor: the Agent record of a fresh agent object.
NewAgent(id, capabilities) ==
  [id |-> id, capabilities |-> capabilities, status |-> "idle",
   currentTask |-> Undefined, messageQueue |-> << >>]

\* faulty variant: only the first declared capability is looked at
canHandleTask_FirstCapability(capabilities, taskType) ==
  IF capabilities = << >> THEN FALSE
  ELSE SeqContains(Head(capabilities).inputTypes, taskType)

\* capability.inputTypes.includes(taskType) for some capability
RECURSIVE canHandleTask(_, _)
canHandleTask(capabilities, taskType) ==
  IF capabilities = << >> THEN FALSE
  ELSE IF SeqContains(Head(capabilities).inputTypes, taskType) THEN TRUE
  ELSE canHandleTask(Tail(capabilities), taskType)

\* getStatus(): a shallow copy of the Agent record
getStatus(ag, a) == ag[a]

\* ---------------------------------------------------- AgentHub: scheduling
\* the for-loop of findSuitableAgentsInternal over this.agents.values()
RECURSIVE findSuitableAgentsFrom(_, _, _)
findSuitableAgentsFrom(ids, ag, taskType) ==
  IF ids = << >> THEN << >>
  ELSE IF canHandleTask(ag[Head(ids)].capabilities, taskType)
       THEN << getStatus(ag, Head(ids)) >>
            \o findSuitableAgentsFrom(Tail(ids), ag, taskType)
       ELSE findSuitableAgentsFrom(Tail(ids), ag, taskType)

findSuitableAgentsInternal(ids, ag, taskType) ==
  findSuitableAgentsFrom(ids, ag, taskType)

findSuitableAgents(ids, ag, taskType) ==
  findSuitableAgentsInternal(ids, ag, taskType)

\* faulty variant: low-priority tasks are given the agent with the longer queue
CompareAgents_PriorityAware(a, b, priority) ==
  IF a.status = "idle" /\ b.status # "idle" THEN -1
  ELSE IF a.status # "idle" /\ b.status = "idle" THEN 1
  ELSE IF priority > 5
       THEN Len(a.messageQueue) - Len(b.messageQueue)
       ELSE Len(b.messageQueue) - Len(a.messageQueue)

\* the comparator handed to Array.prototype.sort
CompareAgents(a, b, priority) ==
  IF a.status = "idle" /\ b.status # "idle" THEN -1
  ELSE IF a.status # "idle" /\ b.status = "idle" THEN 1
  ELSE IF priority > 5
       THEN Len(a.messageQueue) - Len(b.messageQueue)
       ELSE Len(a.messageQueue) - Len(b.messageQueue)

\* Array.prototype.sort is stable: an element goes behind every earlier
\* element that does not compare greater than it.
RECURSIVE InsertSorted(_, _, _)
InsertSorted(sorted, x, priority) ==
  IF sorted = << >> THEN << x >>
  ELSE LET last == sorted[Len(sorted)]
       IN IF CompareAgents(last, x, priority) > 0
          THEN InsertSorted(SubSeq(sorted, 1, Len(sorted) - 1), x, priority)
               \o << last >>
          ELSE sorted \o << x >>

RECURSIVE StableSort(_, _, _)
StableSort(done, rest, priority) ==
  IF rest = << >> THEN done
  ELSE StableSort(InsertSorted(done, Head(rest), priority), Tail(rest), priority)

\* sortedAgents[0]; of an empty list it is undefined
selectBestAgentInternal(list, priority) ==
  IF list = << >> THEN Undefined
  ELSE StableSort(<< >>, list, priority)[1]

selectBestAgent(list, priority) == selectBestAgentInternal(list, priority)

\* ------------------------------------------- the hub state a call works on
Cur ==
  [agents |-> agents, eventCallbacks |-> eventCallbacks,
   messageQueue |-> messageQueue,
   isProcessing |-> isProcessing, agent |-> agent,
   agentMessageQueue |-> agentMessageQueue, executing |-> executing,
   call |-> call, events |-> events, dequeued |-> dequeued,
   delivered |-> delivered, execCalls |-> execCalls,
   idleRequests |-> idleRequests, nextId |-> nextId, runs |-> runs]

Becomes(s) ==
  /\ agents' = s.agents
  /\ eventCallbacks' = s.eventCallbacks
  /\ messageQueue' = s.messageQueue
  /\ isProcessing' = s.isProcessing
  /\ agent' = s.agent
  /\ agentMessageQueue' = s.agentMessageQueue
  /\ executing' = s.executing
  /\ call' = s.call
  /\ events' = s.events
  /\ dequeued' = s.dequeued
  /\ delivered' = s.delivered
  /\ execCalls' = s.execCalls
  /\ idleRequests' = s.idleRequests
  /\ nextId' = s.nextId
  /\ runs' = s.runs
  /\ UNCHANGED engineVars

\* ------------------------------------------- BaseAgent: processMessage path
\* handleRequest's catch block: the agent-error event goes through the
\* hub's listeners as well; if one throws, handleRequest rejects, and with
\* it the processMessage call the drain loop `owner` awaits
handleRequestCatch(s, a, owner) ==
  [s EXCEPT
     !.agent[a].status = "error",
     !.events = Emit(@, "agent-error", a),
     !.call[owner] = IF emitEventThrows(s.eventCallbacks)
                     THEN "rejecting" ELSE "run"]

\* handleRequest up to `await this.executeTask(task)`: the drain loop `owner`
\* that awaits processMessage stays suspended until executeTask settles.
\* A listener that throws on task-assigned takes it to the catch block
\* before the task is created.
handleRequest(s, a, message, owner) ==
  IF emitEventThrows(s.eventCallbacks)
  THEN handleRequestCatch(
         [s EXCEPT !.agent[a].status = "busy",
                   !.events = Emit(@, "task-assigned", a)],
         a, owner)
  ELSE
  [s EXCEPT
     !.agent[a].status = "busy",
     !.agent[a].currentTask =
        [id |-> message.id, type |-> message.taskType, status |-> "in_progress"],
     !.events = Emit(@, "task-assigned", a),
     !.execCalls[a] = @ + 1,
     !.executing = @ \cup {[agent |-> a, via |-> "queue", owner |-> owner]},
     !.call[owner] = "await"]

\* executeTask returned: the rest of handleRequest's try block; a listener
\* that throws on task-completed takes it to the catch block with the task
\* marked completed and still the current task
handleRequestReturned(s, e) ==
  IF emitEventThrows(s.eventCallbacks)
  THEN handleRequestCatch(
         [s EXCEPT !.agent[e.agent].currentTask.status = "completed",
                   !.events = Emit(@, "task-completed", e.agent),
                   !.executing = @ \ {e}],
         e.agent, e.owner)
  ELSE
  [s EXCEPT
     !.events = Emit(@, "task-completed", e.agent),
     !.agent[e.agent].status = "idle",
     !.agent[e.agent].currentTask = Undefined,
     !.executing = @ \ {e},
     !.call[e.owner] = "run"]

\* executeTask threw: handleRequest's catch block
handleRequestThrew(s, e) ==
  handleRequestCatch([s EXCEPT !.executing = @ \ {e}], e.agent, e.owner)

\* the rejection of processMessage reaches processMessageQueue: its finally
\* block runs and the sendMessage call that owns the drain rejects; the
\* messages still queued stay queued
drainRejected(s, owner) ==
  [s EXCEPT !.isProcessing = FALSE, !.call[owner] = "threw"]

\* faulty variant: the status check of processMessage dropped
processMessage_AnyStatus(s, a, message, owner) ==
  LET pushed ==
        [s EXCEPT
           !.agentMessageQueue[a] =
              Append(@, [id |-> message.id, type |-> message.type]),
           !.delivered[message.id] = @ + 1,
           !.idleRequests[a] =
              IF message.type = "request" /\ s.agent[a].status = "idle"
              THEN @ + 1 ELSE @]
  IN IF message.type = "request"
     THEN handleRequest(pushed, a, message, owner)
     ELSE pushed

\* faulty variant: processMessage turns away requests only while the agent is busy
processMessage_UnlessBusy(s, a, message, owner) ==
  LET pushed ==
        [s EXCEPT
           !.agentMessageQueue[a] =
              Append(@, [id |-> message.id, type |-> message.type]),
           !.delivered[message.id] = @ + 1,
           !.idleRequests[a] =
              IF message.type = "request" /\ s.agent[a].status = "idle"
              THEN @ + 1 ELSE @]
  IN IF message.type = "request" /\ s.agent[a].status # "busy"
     THEN handleRequest(pushed, a, message, owner)
     ELSE pushed

processMessage(s, a, message, owner) ==
  LET pushed ==
        [s EXCEPT
           !.agentMessageQueue[a] =
              Append(@, [id |-> message.id, type |-> message.type]),
           !.delivered[message.id] = @ + 1,
           !.idleRequests[a] =
              IF message.type = "request" /\ s.agent[a].status = "idle"
              THEN @ + 1 ELSE @]
  IN IF message.type = "request" /\ s.agent[a].status = "idle"
     THEN handleRequest(pushed, a, message, owner)
     ELSE pushed

\* ------------------------------------------------ AgentHub: message queue
\* faulty variant: the loop takes the newest message (pop) instead of the
\* oldest (shift)
RECURSIVE DrainLoop_TakesLast(_, _)
DrainLoop_TakesLast(s, owner) ==
  IF s.messageQueue = << >>
  THEN [s EXCEPT !.isProcessing = FALSE, !.call[owner] = "returned"]
  ELSE LET message == s.messageQueue[Len(s.messageQueue)]
           shifted == [s EXCEPT !.messageQueue = SubSeq(@, 1, Len(@) - 1),
                                !.dequeued[message.id] = @ + 1]
       IN IF SeqContains(s.agents, message.to)
          THEN processMessage(shifted, message.to, message, owner)
          ELSE DrainLoop_TakesLast(shifted, owner)

\* The while loop of processMessageQueue from its head to the next
\* `await agent.processMessage(message)` (one iteration, after the messages
\* for unregistered ids, which are shifted off and skipped without an await)
\* or, when the queue is empty, through the finally block.
RECURSIVE DrainLoop(_, _)
DrainLoop(s, owner) ==
  IF s.messageQueue = << >>
  THEN [s EXCEPT !.isProcessing = FALSE, !.call[owner] = "returned"]
  ELSE LET message == Head(s.messageQueue)
           shifted == [s EXCEPT !.messageQueue = Tail(@),
                                !.dequeued[message.id] = @ + 1]
       IN IF SeqContains(s.agents, message.to)
          THEN processMessage(shifted, message.to, message, owner)
          ELSE DrainLoop(shifted, owner)

\* faulty variant: isProcessing is never set
processMessageQueue_FlagNotSet(s, owner) ==
  IF s.isProcessing \/ s.messageQueue = << >>
  THEN [s EXCEPT !.call[owner] = "returned"]
  ELSE DrainLoop([s EXCEPT !.call[owner] = "run"], owner)

processMessageQueue(s, owner) ==
  IF s.isProcessing \/ s.messageQueue = << >>
  THEN [s EXCEPT !.call[owner] = "returned"]
  ELSE DrainLoop([s EXCEPT !.isProcessing = TRUE, !.call[owner] = "run"], owner)

\* sendMessage up to its first await; the call is named by its message's id
sendMessage(s, message) ==
  LET pushed == [s EXCEPT !.messageQueue = Append(@, message),
                          !.nextId = @ + 1]
  IN IF ~pushed.isProcessing
     THEN processMessageQueue(pushed, message.id)
     ELSE [pushed EXCEPT !.call[message.id] = "returned"]

\* broadcastMessage: sendMessage for each key of this.agents, in map order
RECURSIVE broadcastFrom(_, _, _)
broadcastFrom(s, ids, type) ==
  IF ids = << >> THEN s
  ELSE broadcastFrom(
         sendMessage(s, [id |-> s.nextId, from |-> "client", to |-> Head(ids),
                         type |-> type, taskType |-> CI, priority |-> "medium"]),
         Tail(ids), type)

broadcastMessage(s, type) == broadcastFrom(s, s.agents, type)

\* the priority label assignTask gives its request message
MessagePriority(priority) ==
  IF priority > 5 THEN "high" ELSE IF priority > 2 THEN "medium" ELSE "low"

\* faulty variant: the first suitable agent is taken, selectBestAgent not consulted
assignTask_FirstSuitable(s, taskType, priority) ==
  LET suitableAgents == findSuitableAgents(s.agents, s.agent, taskType)
      selectedAgent == suitableAgents[1]
  IN sendMessage(s, [id |-> s.nextId, from |-> Coordinator,
                     to |-> selectedAgent.id, type |-> "request",
                     taskType |-> taskType,
                     priority |-> MessagePriority(priority)])

\* assignTask past the NoSuitableAgent check
assignTask(s, taskType, priority) ==
  LET suitableAgents == findSuitableAgents(s.agents, s.agent, taskType)
      selectedAgent == selectBestAgentInternal(suitableAgents, priority)
  IN sendMessage(s, [id |-> s.nextId, from |-> Coordinator,
                     to |-> selectedAgent.id, type |-> "request",
                     taskType |-> taskType,
                     priority |-> MessagePriority(priority)])

\* ------------------------------------- AgentHub: coordinateICPAnalysis
\* what an agent's executeTask resolves with
Result(taskType, a) == [taskType |-> taskType, agentId |-> a]

NoRun ==
  [pc |-> "none", idx |-> 0,
   gatheredData |-> [t \in GatheringTypes |-> Undefined],
   input |-> Undefined, targetCompanyData |-> Undefined,
   combinedData |-> Undefined,
   started |-> {}, settled |-> {}, threw |-> {}, agentErrors |-> 0,
   invoked |-> {}, onProgress |-> NoCallback, streaming |-> FALSE,
   before |-> << >>, assigned |-> << >>, polls |-> 0]

\* the direct call `agent.executeTask({...})` of run r on the selected agent
StartExecuteTask(s, r, taskType, a) ==
  [s EXCEPT !.executing = @ \cup {[agent |-> a, via |-> "direct", owner |-> r]},
            !.runs[r].started = @ \cup {taskType},
            !.runs[r].invoked = @ \cup {a}]

\* building combinedData, the agent-completed event and the return
Combine(s, r) ==
  LET run == s.runs[r]
      combinedData ==
        [customerIntelligence |-> run.gatheredData[CI],
         marketResearch |-> run.gatheredData[MR],
         firmographicData |-> run.gatheredData[FA],
         technographicData |-> run.gatheredData[TA],
         psychographicData |-> run.gatheredData[PA],
         targetCompanyData |-> run.targetCompanyData,
         metadata |-> [agentsUsed |-> s.agents]]
  IN [s EXCEPT
        !.events = Emit(Emit(Emit(@, "data-shared", Coordinator),
                             "data-shared", Coordinator),
                        "agent-completed", Coordinator),
        !.eventCallbacks = IF run.onProgress = NoCallback THEN @
                           ELSE removeEventListener(@, run.onProgress),
        !.runs[r].combinedData = combinedData,
        !.runs[r].pc = "done"]

\* from the "Phase 1 complete" event to the await of the phase-2 executeTask
Phase2(s, r) ==
  LET run == s.runs[r]
      input == [customerIntelligence |-> run.gatheredData[CI],
                marketResearch |-> run.gatheredData[MR],
                firmographicData |-> run.gatheredData[FA]]
      announced ==
        [s EXCEPT
           !.events = Emit(Emit(@, "data-shared", Coordinator),
                           "data-shared", Coordinator),
           !.runs[r].input = input,
           !.runs[r].targetCompanyData = EmptyObject,
           !.runs[r].idx = Len(dataGatheringTasks) + 1]
      suitableAgents == findSuitableAgentsInternal(s.agents, s.agent, TCD)
      selectedAgent ==
        selectBestAgentInternal(suitableAgents, priorityWeights[TCD])
  IN IF Len(suitableAgents) > 0
     THEN StartExecuteTask(
            [announced EXCEPT !.events = Emit(@, "data-shared", Coordinator),
                              !.runs[r].pc = "phase2"],
            r, TCD, selectedAgent.id)
     ELSE Combine(announced, r)

\* the for-loop over dataGatheringTasks from task i to the next
\* `await agent.executeTask`; a task no agent can handle is passed over
RECURSIVE Phase1From(_, _, _)
Phase1From(s, r, i) ==
  IF i > Len(dataGatheringTasks) THEN Phase2(s, r)
  ELSE LET taskType == dataGatheringTasks[i]
           announced == [s EXCEPT !.events = Emit(@, "data-shared", Coordinator)]
           suitableAgents ==
             findSuitableAgentsInternal(s.agents, s.agent, taskType)
           selectedAgent ==
             selectBestAgentInternal(suitableAgents, priorityWeights[taskType])
       IN IF Len(suitableAgents) > 0
          THEN StartExecuteTask(
                 [announced EXCEPT !.runs[r].pc = "phase1", !.runs[r].idx = i],
                 r, taskType, selectedAgent.id)
          ELSE Phase1From(announced, r, i + 1)

\* coordinateICPAnalysis from its entry to its first await; onProgress is
\* the optional callback, NoCallback when the caller passes none
coordinateICPAnalysis(s, r, onProgress) ==
  Phase1From(
    [s EXCEPT !.eventCallbacks = IF onProgress = NoCallback THEN @
                                 ELSE addEventListener(@, onProgress),
              !.events = Emit(Emit(Emit(@, "agent-started", Coordinator),
                                   "data-shared", Coordinator),
                              "data-shared", Coordinator),
              !.runs[r] = [s.runs[r] EXCEPT !.pc = "phase1",
                                            !.onProgress = onProgress]],
    r, 1)

\* faulty variant: phase 2 starts as soon as its three inputs have been tried
Phase1Returned_EarlyPhase2(s, e) ==
  LET r == e.owner
      taskType == dataGatheringTasks[s.runs[r].idx]
      stored == [s EXCEPT !.executing = @ \ {e},
                          !.runs[r].gatheredData[taskType] = Result(taskType, e.agent),
                          !.runs[r].settled = @ \cup {taskType},
                          !.events = Emit(@, "data-shared", Coordinator)]
  IN IF taskType = FA THEN Phase2(stored, r)
     ELSE Phase1From(stored, r, s.runs[r].idx + 1)

\* the awaited phase-1 executeTask resolved
Phase1Returned(s, e) ==
  LET r == e.owner
      taskType == dataGatheringTasks[s.runs[r].idx]
  IN Phase1From(
       [s EXCEPT !.executing = @ \ {e},
                 !.runs[r].gatheredData[taskType] = Result(taskType, e.agent),
                 !.runs[r].settled = @ \cup {taskType},
                 !.events = Emit(@, "data-shared", Coordinator)],
       r, s.runs[r].idx + 1)

\* faulty variant: the catch sits outside the for loop, a failure ends phase 1
Phase1Threw_Breaks(s, e) ==
  LET r == e.owner
      taskType == dataGatheringTasks[s.runs[r].idx]
  IN Phase2(
       [s EXCEPT !.executing = @ \ {e},
                 !.runs[r].settled = @ \cup {taskType},
                 !.runs[r].threw = @ \cup {taskType},
                 !.runs[r].agentErrors = @ + 1,
                 !.events = Emit(@, "agent-error", Coordinator)],
       r)

\* the awaited phase-1 executeTask rejected: the catch inside the loop
Phase1Threw(s, e) ==
  LET r == e.owner
      taskType == dataGatheringTasks[s.runs[r].idx]
  IN Phase1From(
       [s EXCEPT !.executing = @ \ {e},
                 !.runs[r].settled = @ \cup {taskType},
                 !.runs[r].threw = @ \cup {taskType},
                 !.runs[r].agentErrors = @ + 1,
                 !.events = Emit(@, "agent-error", Coordinator)],
       r, s.runs[r].idx + 1)

Phase2Returned(s, e) ==
  LET r == e.owner
  IN Combine(
       [s EXCEPT !.executing = @ \ {e},
                 !.runs[r].targetCompanyData = Result(TCD, e.agent),
                 !.runs[r].settled = @ \cup {TCD}],
       r)

Phase2Threw(s, e) ==
  LET r == e.owner
  IN Combine(
       [s EXCEPT !.executing = @ \ {e},
                 !.runs[r].settled = @ \cup {TCD},
                 !.runs[r].threw = @ \cup {TCD},
                 !.runs[r].agentErrors = @ + 1,
                 !.events = Emit(@, "agent-error", Coordinator)],
       r)

\* ================================================== LangGraphSearchEngine
\* SEARCH_CONFIG; confidences are held in tenths (0.3 is 3)
MAX_RETRIES == 2
MAX_SEARCH_ATTEMPTS == 3
MAX_SEARCH_QUERIES == 4
MAX_SOURCES_TO_SCRAPE == 6
MIN_ANSWER_CONFIDENCE == 3
\* the literal 0.3 of analyze's partialAnswers filter
PartialAnswerConfidence == 3
\* recursionLimit passed to graph.invoke
recursionLimit == 35

\* a channel of type T | undefined holds Undefined or Some(v)
Some(v) == [value |-> v]
\* (x, y) => y ?? x
Coalesce(x, y) == IF y = Undefined THEN x ELSE y

\* Source records: url and content, the content empty (or shorter than
\* MIN_CONTENT_LENGTH), the markdown of a search result, or scraped markdown
Urls == {"u1", "u2"}
Source(url, content) == [url |-> url, content |-> content]
HasContent(s) == s.content # ""
\* results.data of firecrawl.search, a record per result
SearchResultMenu ==
  { << >>,
    << Source("u1", "") >>,
    << Source("u1", "markdown") >>,
    << Source("u1", "markdown"), Source("u1", "") >>,
    << Source("u2", ""), Source("u1", "markdown") >>,
    << Source("u2", "markdown"), Source("u2", "") , Source("u1", "") >> }
\* result.confidence values an answer check may report
CheckConfidences == {2, 5}

Indices(n) == [i \in 1..n |-> i]

\* sourceMap.set(source.url, source): a Map keeps a key's first position
MapSet(sourceMap, source) ==
  IF \E i \in 1..Len(sourceMap) : sourceMap[i].url = source.url
  THEN [i \in 1..Len(sourceMap) |->
          IF sourceMap[i].url = source.url THEN source ELSE sourceMap[i]]
  ELSE Append(sourceMap, source)
RECURSIVE MapSetAll(_, _)
MapSetAll(sourceMap, list) ==
  IF list = << >> THEN sourceMap
  ELSE MapSetAll(MapSet(sourceMap, Head(list)), Tail(list))

\* faulty variant: the batch is concatenated, as scrapedSources' reducer does
sourcesReducer_Concatenates(existing, update) == existing \o update

\* reducer of SearchStateAnnotation.sources
sourcesReducer(existing, update) == MapSetAll(<< >>, existing \o update)

\* reducer of SearchStateAnnotation.scrapedSources
scrapedSourcesReducer(existing, update) == existing \o update

\* The channels of SearchStateAnnotation that steer the graph; query,
\* context, understanding, processedSources and followUpQuestions are data
\* that no edge or condition reads. A channel a node's return value does not
\* name is not written.
ApplyUpdate(st, update) ==
  [sources |->
     IF "sources" \in DOMAIN update
     THEN sourcesReducer(st.sources, update.sources) ELSE st.sources,
   scrapedSources |->
     IF "scrapedSources" \in DOMAIN update
     THEN scrapedSourcesReducer(st.scrapedSources, update.scrapedSources)
     ELSE st.scrapedSources,
   searchQueries |->
     IF "searchQueries" \in DOMAIN update
     THEN Coalesce(st.searchQueries, update.searchQueries) ELSE st.searchQueries,
   currentSearchIndex |->
     IF "currentSearchIndex" \in DOMAIN update
     THEN update.currentSearchIndex ELSE st.currentSearchIndex,
   finalAnswer |->
     IF "finalAnswer" \in DOMAIN update
     THEN Coalesce(st.finalAnswer, update.finalAnswer) ELSE st.finalAnswer,
   subQueries |->
     IF "subQueries" \in DOMAIN update
     THEN Coalesce(st.subQueries, update.subQueries) ELSE st.subQueries,
   searchAttempt |->
     IF "searchAttempt" \in DOMAIN update
     THEN update.searchAttempt ELSE st.searchAttempt,
   phase |-> IF "phase" \in DOMAIN update THEN update.phase ELSE st.phase,
   error |->
     IF "error" \in DOMAIN update
     THEN Coalesce(st.error, update.error) ELSE st.error,
   errorType |->
     IF "errorType" \in DOMAIN update
     THEN Coalesce(st.errorType, update.errorType) ELSE st.errorType,
   maxRetries |->
     IF "maxRetries" \in DOMAIN update THEN update.maxRetries ELSE st.maxRetries,
   retryCount |->
     IF "retryCount" \in DOMAIN update THEN update.retryCount ELSE st.retryCount]

\* the channels' defaults
SearchStateDefault ==
  [sources |-> << >>, scrapedSources |-> << >>, searchQueries |-> Undefined,
   currentSearchIndex |-> 0, finalAnswer |-> Undefined,
   subQueries |-> Undefined, searchAttempt |-> 0, phase |-> "understanding",
   error |-> Undefined, errorType |-> Undefined, maxRetries |-> MAX_RETRIES,
   retryCount |-> 0]

\* search(): const initialState
initialState ==
  [sources |-> << >>, scrapedSources |-> << >>, phase |-> "understanding",
   currentSearchIndex |-> 0, maxRetries |-> MAX_RETRIES, retryCount |-> 0,
   searchQueries |-> Undefined, finalAnswer |-> Undefined,
   error |-> Undefined, errorType |-> Undefined, subQueries |-> Undefined,
   searchAttempt |-> 0]

\* ------------------------------------------------------------ SearchEvents
\* an event handed to eventCallback, with the node that emitted it
Event(type, by) == [type |-> type, node |-> by]
NoEvent == [type |-> "none", node |-> "none"]
NoEvents == [error |-> 0, finalResult |-> 0, last |-> NoEvent]
eventCallback(seen, event) ==
  [error |-> seen.error + (IF event.type = "error" THEN 1 ELSE 0),
   finalResult |-> seen.finalResult + (IF event.type = "final-result" THEN 1 ELSE 0),
   last |-> event]
RECURSIVE EmitAll(_, _)
EmitAll(seen, list) ==
  IF list = << >> THEN seen
  ELSE EmitAll(eventCallback(seen, Head(list)), Tail(list))

\* x || d on numbers
OrElse(x, d) == IF x = 0 THEN d ELSE x

\* ------------------------------------------------------------------- nodes
\* Each node gives the Partial<SearchState> it returns and the events it
\* emitted, for a given outcome of the calls it awaits.

\* "understand": analyzeQuery returned (ok) or threw
understand(st, ok) ==
  IF ok
  THEN [update |-> [phase |-> "planning"],
        events |-> << Event("phase-update", "understand"),
                      Event("thinking", "understand") >>]
  ELSE [update |-> [error |-> Some("Failed to understand query"),
                    errorType |-> Some("llm"), phase |-> "error"],
        events |-> << Event("phase-update", "understand") >>]

\* extracted.map(...): fresh sub-queries, confidence 0 and not answered
NewSubQueries(n) ==
  [i \in 1..n |-> [question |-> i, answered |-> FALSE, confidence |-> 0]]
\* !sq.answered || sq.confidence < MIN_ANSWER_CONFIDENCE
IsUnanswered(sq) == ~sq.answered \/ sq.confidence < MIN_ANSWER_CONFIDENCE
Unanswered(subQueries) ==
  {i \in 1..Len(subQueries) : IsUnanswered(subQueries[i])}

\* "plan": extraction is what extractSubQueries returned (an array of n
\* entries, or something that is no array); alternatives is the number of
\* queries generateAlternativeSearchQueries returned
plan(st, extraction, alternatives) ==
  IF st.subQueries = Undefined /\ ~extraction.array
  THEN [update |-> [error |-> Some("Failed to plan search"),
                    errorType |-> Some("llm"), phase |-> "error"],
        events |-> << Event("phase-update", "plan") >>]
  ELSE
    LET subQueries == IF st.subQueries = Undefined
                      THEN NewSubQueries(extraction.n)
                      ELSE st.subQueries.value
        unansweredQueries == Unanswered(subQueries)
        searchQueries == IF st.searchAttempt > 0
                         THEN Indices(alternatives)
                         ELSE Indices(Cardinality(unansweredQueries))
    IN IF unansweredQueries = {}
       THEN [update |-> [subQueries |-> Some(subQueries),
                         phase |-> "analyzing"],
             events |-> << Event("phase-update", "plan") >>]
       ELSE [update |-> [searchQueries |-> Some(searchQueries),
                         subQueries |-> Some(subQueries),
                         currentSearchIndex |-> 0,
                         phase |-> "searching"],
             events |-> << Event("phase-update", "plan"),
                           Event("thinking", "plan") >>]

\* state.searchQueries || []
QueriesOf(st) ==
  IF st.searchQueries = Undefined THEN << >> ELSE st.searchQueries.value

\* does this execution of "search" call firecrawl.search
CallsFirecrawl(st) == st.currentSearchIndex < Len(QueriesOf(st))

\* faulty variant: a retrieval that throws leaves the index where it was
search_KeepsIndexOnThrow(st, result) ==
  LET searchQueries == QueriesOf(st)
      currentIndex == st.currentSearchIndex
      opening == IF currentIndex = 0
                 THEN << Event("phase-update", "search") >> ELSE << >>
  IN IF currentIndex >= Len(searchQueries)
     THEN [update |-> [phase |-> "scrape"], events |-> opening]
     ELSE IF result.ok
     THEN [update |-> [sources |-> result.data,
                       currentSearchIndex |-> currentIndex + 1],
           events |-> opening \o << Event("searching", "search"),
                                    Event("found", "search") >>
                      \o (IF result.data = << >> THEN << >>
                          ELSE << Event("source-processing", "search") >>)]
     ELSE [update |-> [errorType |-> Some("search")],
           events |-> opening \o << Event("searching", "search") >>]

\* "search": one query per execution; result is what firecrawl.search and
\* the summaries that follow it gave: ok with results.data, or a throw
search(st, result) ==
  LET searchQueries == QueriesOf(st)
      currentIndex == st.currentSearchIndex
      opening == IF currentIndex = 0
                 THEN << Event("phase-update", "search") >> ELSE << >>
  IN IF currentIndex >= Len(searchQueries)
     THEN [update |-> [phase |-> "scrape"], events |-> opening]
     ELSE IF result.ok
     THEN [update |-> [sources |-> result.data,
                       currentSearchIndex |-> currentIndex + 1],
           events |-> opening \o << Event("searching", "search"),
                                    Event("found", "search") >>
                      \o (IF result.data = << >> THEN << >>
                          ELSE << Event("source-processing", "search") >>)]
     ELSE [update |-> [currentSearchIndex |-> currentIndex + 1,
                       errorType |-> Some("search")],
           events |-> opening \o << Event("searching", "search") >>]

RECURSIVE Keep(_, _)
\* list.filter by presence of content
Keep(list, withContent) ==
  IF list = << >> THEN << >>
  ELSE IF HasContent(Head(list)) = withContent
       THEN << Head(list) >> \o Keep(Tail(list), withContent)
       ELSE Keep(Tail(list), withContent)

RECURSIVE Enrich(_, _)
\* the scrape loop: a source whose scrapeUrl gave markdown is pushed enriched
Enrich(list, reachable) ==
  IF list = << >> THEN << >>
  ELSE IF Head(list).url \in reachable
       THEN << [Head(list) EXCEPT !.content = "scraped"] >>
            \o Enrich(Tail(list), reachable)
       ELSE Enrich(Tail(list), reachable)

FirstN(list, n) == SubSeq(list, 1, IF Len(list) < n THEN Len(list) ELSE n)

RECURSIVE EnrichUntilFailure(_, _)
\* faulty variant of the scrape loop: the first failed source ends it
EnrichUntilFailure(list, reachable) ==
  IF list = << >> THEN << >>
  ELSE IF Head(list).url \in reachable
       THEN << [Head(list) EXCEPT !.content = "scraped"] >>
            \o EnrichUntilFailure(Tail(list), reachable)
       ELSE << >>

\* faulty variant: a source that fails aborts the batch
scrape_StopsAtFailure(st, reachable) ==
  LET sourcesToScrape == Keep(st.sources, FALSE)
      sourcesWithContent == Keep(st.sources, TRUE)
      tried == FirstN(sourcesToScrape, MAX_SOURCES_TO_SCRAPE)
  IN [update |-> [scrapedSources |->
                    sourcesWithContent \o EnrichUntilFailure(tried, reachable),
                  phase |-> "analyzing"],
      calls |-> [i \in 1..Len(tried) |->
                   [url |-> tried[i].url, ok |-> tried[i].url \in reachable]],
      events |-> IF tried = << >> THEN << >>
                 ELSE IF tried[Len(tried)].url \in reachable
                 THEN << Event("scraping", "scrape"),
                         Event("source-complete", "scrape") >>
                 ELSE << Event("scraping", "scrape"),
                         Event("thinking", "scrape") >>]

\* "scrape": reachable is the set of urls whose scrapeUrl returns markdown;
\* calls lists the scrapeUrl calls made and whether each gave markdown
scrape(st, reachable) ==
  LET sourcesToScrape == Keep(st.sources, FALSE)
      sourcesWithContent == Keep(st.sources, TRUE)
      tried == FirstN(sourcesToScrape, MAX_SOURCES_TO_SCRAPE)
  IN [update |-> [scrapedSources |->
                    sourcesWithContent \o Enrich(tried, reachable),
                  phase |-> "analyzing"],
      calls |-> [i \in 1..Len(tried) |->
                   [url |-> tried[i].url, ok |-> tried[i].url \in reachable]],
      events |-> IF tried = << >> THEN << >>
                 ELSE IF tried[Len(tried)].url \in reachable
                 THEN << Event("scraping", "scrape"),
                         Event("source-complete", "scrape") >>
                 ELSE << Event("scraping", "scrape"),
                         Event("thinking", "scrape") >>]

\* faulty variant: a found result always replaces the stored one
checkAnswersInSources_Overwrites(subQueries, sources, check) ==
  IF sources = << >> \/ ~check.parsed THEN subQueries
  ELSE [i \in 1..Len(subQueries) |->
          IF check.results[i] # {}
          THEN LET c == CHOOSE r \in check.results[i] : TRUE
               IN [subQueries[i] EXCEPT
                     !.answered = c >= MIN_ANSWER_CONFIDENCE,
                     !.confidence = c]
          ELSE subQueries[i]]

\* faulty variant: a question counts as answered only above the threshold
checkAnswersInSources_AboveThreshold(subQueries, sources, check) ==
  IF sources = << >> \/ ~check.parsed THEN subQueries
  ELSE [i \in 1..Len(subQueries) |->
          IF \E r \in check.results[i] : r > subQueries[i].confidence
          THEN LET c == CHOOSE r \in check.results[i] : TRUE
               IN [subQueries[i] EXCEPT
                     !.answered = c > MIN_ANSWER_CONFIDENCE,
                     !.confidence = c]
          ELSE subQueries[i]]

\* checkAnswersInSources: check.parsed is whether the LLM call returned and
\* its text parsed to an array; check.results[i] holds the confidence of the
\* entry found for question i, and is empty when there is none
checkAnswersInSources(subQueries, sources, check) ==
  IF sources = << >> \/ ~check.parsed THEN subQueries
  ELSE [i \in 1..Len(subQueries) |->
          IF \E r \in check.results[i] : r > subQueries[i].confidence
          THEN LET c == CHOOSE r \in check.results[i] : TRUE
               IN [subQueries[i] EXCEPT
                     !.answered = c >= MIN_ANSWER_CONFIDENCE,
                     !.confidence = c]
          ELSE subQueries[i]]

\* analyze's sourceMap: state.sources overlaid with state.scrapedSources
AllSources(st) == MapSetAll(MapSetAll(<< >>, st.sources), st.scrapedSources)

\* faulty variant: the attempt budget is not consulted
analyze_NoAttemptLimit(st, check) ==
  LET allSources == AllSources(st)
  IN IF st.subQueries # Undefined
     THEN
       LET updatedSubQueries ==
             checkAnswersInSources(st.subQueries.value, allSources, check)
           answeredCount ==
             Cardinality({i \in 1..Len(updatedSubQueries) :
                            updatedSubQueries[i].answered})
           totalQuestions == Len(updatedSubQueries)
           searchAttempt == st.searchAttempt + 1
           partialAnswers ==
             {i \in 1..Len(updatedSubQueries) :
                updatedSubQueries[i].confidence >= PartialAnswerConfidence}
           hasPartialInfo == Cardinality(partialAnswers) > answeredCount
       IN IF /\ answeredCount < totalQuestions
             /\ ~(hasPartialInfo /\ searchAttempt >= 2)
          THEN [update |-> [sources |-> allSources,
                            subQueries |-> Some(updatedSubQueries),
                            searchAttempt |-> searchAttempt,
                            phase |-> "planning"],
                events |-> << Event("phase-update", "analyze"),
                              Event("thinking", "analyze") >>]
          ELSE [update |-> [sources |-> allSources,
                            subQueries |-> Some(updatedSubQueries),
                            searchAttempt |-> searchAttempt,
                            phase |-> "synthesizing"],
                events |-> << Event("phase-update", "analyze"),
                              Event("thinking", "analyze") >>]
     ELSE [update |-> [sources |-> allSources, phase |-> "synthesizing"],
           events |-> << Event("phase-update", "analyze") >>]

\* "analyze"; contextProcessor.processSources only fills processedSources
analyze(st, check) ==
  LET allSources == AllSources(st)
  IN IF st.subQueries # Undefined
     THEN
       LET updatedSubQueries ==
             checkAnswersInSources(st.subQueries.value, allSources, check)
           answeredCount ==
             Cardinality({i \in 1..Len(updatedSubQueries) :
                            updatedSubQueries[i].answered})
           totalQuestions == Len(updatedSubQueries)
           searchAttempt == st.searchAttempt + 1
           partialAnswers ==
             {i \in 1..Len(updatedSubQueries) :
                updatedSubQueries[i].confidence >= PartialAnswerConfidence}
           hasPartialInfo == Cardinality(partialAnswers) > answeredCount
       IN IF /\ answeredCount < totalQuestions
             /\ searchAttempt < MAX_SEARCH_ATTEMPTS
             /\ ~(hasPartialInfo /\ searchAttempt >= 2)
          THEN [update |-> [sources |-> allSources,
                            subQueries |-> Some(updatedSubQueries),
                            searchAttempt |-> searchAttempt,
                            phase |-> "planning"],
                events |-> << Event("phase-update", "analyze"),
                              Event("thinking", "analyze") >>]
          ELSE [update |-> [sources |-> allSources,
                            subQueries |-> Some(updatedSubQueries),
                            searchAttempt |-> searchAttempt,
                            phase |-> "synthesizing"],
                events |-> << Event("phase-update", "analyze"),
                              Event("thinking", "analyze") >>]
     ELSE [update |-> [sources |-> allSources, phase |-> "synthesizing"],
           events |-> << Event("phase-update", "analyze") >>]

\* "synthesize": generateStreamingAnswer returned (ok) or threw
synthesize(st, ok) ==
  IF ok
  THEN [update |-> [finalAnswer |-> Some("answer"), phase |-> "complete"],
        events |-> << Event("phase-update", "synthesize"),
                      Event("content-chunk", "synthesize") >>]
  ELSE [update |-> [error |-> Some("Failed to generate answer"),
                    errorType |-> Some("llm"), phase |-> "error"],
        events |-> << Event("phase-update", "synthesize") >>]

\* the error event of handleError
ErrorEvent(st) ==
  [type |-> "error", node |-> "handleError",
   error |-> IF st.error = Undefined
             THEN "An unknown error occurred" ELSE st.error.value,
   errorType |-> st.errorType]

\* faulty variant: the retry test admits retryCount = maxRetries
handleError_RetriesAtLimit(st) ==
  IF OrElse(st.retryCount, 0) <= OrElse(st.maxRetries, MAX_RETRIES)
  THEN LET retryPhase == IF st.errorType = Some("search")
                         THEN "searching" ELSE "understanding"
       IN [update |-> [retryCount |-> OrElse(st.retryCount, 0) + 1,
                       phase |-> retryPhase,
                       error |-> Undefined,
                       errorType |-> Undefined],
           events |-> << ErrorEvent(st) >>]
  ELSE [update |-> [phase |-> "error"], events |-> << ErrorEvent(st) >>]

\* "handleError"
handleError(st) ==
  IF OrElse(st.retryCount, 0) < OrElse(st.maxRetries, MAX_RETRIES)
  THEN LET retryPhase == IF st.errorType = Some("search")
                         THEN "searching" ELSE "understanding"
       IN [update |-> [retryCount |-> OrElse(st.retryCount, 0) + 1,
                       phase |-> retryPhase,
                       error |-> Undefined,
                       errorType |-> Undefined],
           events |-> << ErrorEvent(st) >>]
  ELSE [update |-> [phase |-> "error"], events |-> << ErrorEvent(st) >>]

\* "complete"
complete(st) ==
  [update |-> [phase |-> "complete"],
   events |-> << Event("phase-update", "complete"),
                 Event("final-result", "complete") >>]

\* faulty variant: the complete node is wired back to understand
route_CompleteLoops(from, st) ==
  CASE from = "START" -> "understand"
    [] from = "understand" -> IF st.phase = "error" THEN "handleError" ELSE "plan"
    [] from = "plan" -> IF st.phase = "error" THEN "handleError" ELSE "search"
    [] from = "search" ->
         IF st.phase = "error" THEN "handleError"
         ELSE IF st.currentSearchIndex < Len(QueriesOf(st)) THEN "search"
         ELSE "scrape"
    [] from = "scrape" -> IF st.phase = "error" THEN "handleError" ELSE "analyze"
    [] from = "analyze" ->
         IF st.phase = "error" THEN "handleError"
         ELSE IF st.phase = "planning" THEN "plan"
         ELSE "synthesize"
    [] from = "synthesize" ->
         IF st.phase = "error" THEN "handleError" ELSE "complete"
    [] from = "handleError" -> IF st.phase = "error" THEN "END" ELSE "understand"
    [] OTHER -> "understand"

\* the edges of the graph: the node that runs after `from` left state st
route(from, st) ==
  CASE from = "START" -> "understand"
    [] from = "understand" -> IF st.phase = "error" THEN "handleError" ELSE "plan"
    [] from = "plan" -> IF st.phase = "error" THEN "handleError" ELSE "search"
    [] from = "search" ->
         IF st.phase = "error" THEN "handleError"
         ELSE IF st.currentSearchIndex < Len(QueriesOf(st)) THEN "search"
         ELSE "scrape"
    [] from = "scrape" -> IF st.phase = "error" THEN "handleError" ELSE "analyze"
    [] from = "analyze" ->
         IF st.phase = "error" THEN "handleError"
         ELSE IF st.phase = "planning" THEN "plan"
         ELSE "synthesize"
    [] from = "synthesize" ->
         IF st.phase = "error" THEN "handleError" ELSE "complete"
    [] from = "handleError" -> IF st.phase = "error" THEN "END" ELSE "understand"
    [] OTHER -> "END"

\* -------------------------------------------------------------------- Init
\* The hub after `new AgentHub(config)` and the agent objects after their
\* constructors; nothing is registered yet.
InitHub(capabilities) ==
  /\ agents = << >>
  /\ eventCallbacks = << >>
  /\ messageQueue = << >>
  /\ isProcessing = FALSE
  /\ agent = [a \in AgentIds |-> NewAgent(a, capabilities[a])]
  /\ agentMessageQueue = [a \in AgentIds |-> << >>]
  /\ executing = {}
  /\ call = [m \in MessageIds |-> "none"]
  /\ runs = [r \in RunIds |-> NoRun]
  /\ events = [k \in EventTypes \X Emitters |-> 0]
  /\ dequeued = [m \in MessageIds |-> 0]
  /\ delivered = [m \in MessageIds |-> 0]
  /\ execCalls = [a \in AgentIds |-> 0]
  /\ idleRequests = [a \in AgentIds |-> 0]
  /\ nextId = 1
  /\ calls = 0
  /\ lastOp = [op |-> "none"]
  /\ candidates = << >>
  /\ selected = Undefined

\* a LangGraphSearchEngine whose graph is about to run node n on state st
InitEngine(st, n, done) ==
  /\ state = st
  /\ node = n
  /\ steps = done
  /\ searchEvents = NoEvents
  /\ lastBatch = Undefined
  /\ lastCheck = Undefined
  /\ retrieval = [attempted |-> FALSE, succeeded |-> FALSE, issued |-> << >>,
                  scrapeCalls |-> << >>]

\* no calculateOverallConfidence or ICPSynthesisAgent call has been made
InitFunctions(data, task) ==
  /\ gatheredData = data
  /\ overallConfidence = Undefined
  /\ synthesisTask = task
  /\ synthesisResult = Undefined

InitWith(capabilities) ==
  /\ InitHub(capabilities)
  /\ InitEngine(SearchStateDefault, "START", 0)
  /\ InitFunctions(<< >>, Undefined)

Init == InitWith(DefaultCapabilities)

RunsStarted == Cardinality({r \in RunIds : runs[r].pc # "none"})

\* ----------------------------------------------------------------- actions
\* registerAgent(agent); MultiAgentICPEngine registers every agent in its
\* constructor, before the hub is used.
RegisterAgent(a) ==
  /\ ~SeqContains(agents, a)
  /\ calls = 0
  /\ RunsStarted = 0
  /\ agents' = Append(agents, a)
  /\ events' = Emit(events, "agent-started", a)
  /\ lastOp' = [op |-> "registerAgent", agent |-> a]
  /\ UNCHANGED engineVars
  /\ UNCHANGED << eventCallbacks, messageQueue, isProcessing, agent,
                  agentMessageQueue,
                  executing, call, runs, dequeued, delivered, execCalls,
                  idleRequests, nextId, calls, candidates, selected >>

SendMessage(to, type, priority) ==
  /\ calls < MaxCalls
  /\ Becomes(sendMessage(Cur, [id |-> nextId, from |-> "client", to |-> to,
                               type |-> type, taskType |-> CI,
                               priority |-> priority]))
  /\ calls' = calls + 1
  /\ lastOp' = [op |-> "sendMessage", n |-> calls + 1, id |-> nextId,
                to |-> to]
  /\ UNCHANGED << candidates, selected >>

BroadcastMessage(type) ==
  /\ calls < MaxCalls
  /\ Becomes(broadcastMessage(Cur, type))
  /\ calls' = calls + 1
  /\ lastOp' = [op |-> "broadcastMessage", n |-> calls + 1, id |-> nextId]
  /\ UNCHANGED << candidates, selected >>

AssignTask(taskType, priority) ==
  /\ calls < MaxCalls
  /\ calls' = calls + 1
  /\ UNCHANGED << candidates, selected >>
  /\ IF Len(findSuitableAgents(agents, agent, taskType)) = 0
     THEN /\ lastOp' = [op |-> "assignTask", n |-> calls + 1, id |-> nextId,
                        taskType |-> taskType, priority |-> priority,
                        threw |-> TRUE]
          /\ UNCHANGED engineVars
          /\ UNCHANGED << eventCallbacks, agents, messageQueue, isProcessing,
                          agent,
                          agentMessageQueue, executing, call, runs, events,
                          dequeued, delivered, execCalls, idleRequests, nextId >>
     ELSE /\ lastOp' = [op |-> "assignTask", n |-> calls + 1, id |-> nextId,
                        taskType |-> taskType, priority |-> priority,
                        threw |-> FALSE]
          /\ Becomes(assignTask(Cur, taskType, priority))

\* the drain loop of call m resumes after `await agent.processMessage`
DrainResume(m) ==
  /\ call[m] = "run"
  /\ Becomes(DrainLoop(Cur, m))
  /\ UNCHANGED << calls, lastOp, candidates, selected >>

\* the drain loop of call m is resumed by the rejection of processMessage
DrainRejects(m) ==
  /\ call[m] = "rejecting"
  /\ Becomes(drainRejected(Cur, m))
  /\ UNCHANGED << calls, lastOp, candidates, selected >>

HandleRequestReturns(e) ==
  /\ e.via = "queue"
  /\ Becomes(handleRequestReturned(Cur, e))
  /\ UNCHANGED << calls, lastOp, candidates, selected >>

HandleRequestThrows(e) ==
  /\ e.via = "queue"
  /\ Becomes(handleRequestThrew(Cur, e))
  /\ UNCHANGED << calls, lastOp, candidates, selected >>

CoordinateICPAnalysis(r) ==
  /\ runs[r].pc = "none"
  /\ \A q \in RunIds : q < r => runs[q].pc # "none"
  /\ Becomes(coordinateICPAnalysis(Cur, r, NoCallback))
  /\ lastOp' = [op |-> "coordinateICPAnalysis", run |-> r]
  /\ UNCHANGED << calls, candidates, selected >>

GatheringTaskReturns(e) ==
  /\ e.via = "direct"
  /\ runs[e.owner].pc = "phase1"
  /\ Becomes(Phase1Returned(Cur, e))
  /\ UNCHANGED << calls, lastOp, candidates, selected >>

GatheringTaskThrows(e) ==
  /\ e.via = "direct"
  /\ runs[e.owner].pc = "phase1"
  /\ Becomes(Phase1Threw(Cur, e))
  /\ UNCHANGED << calls, lastOp, candidates, selected >>

DiscoveryTaskReturns(e) ==
  /\ e.via = "direct"
  /\ runs[e.owner].pc = "phase2"
  /\ Becomes(Phase2Returned(Cur, e))
  /\ UNCHANGED << calls, lastOp, candidates, selected >>

DiscoveryTaskThrows(e) ==
  /\ e.via = "direct"
  /\ runs[e.owner].pc = "phase2"
  /\ Becomes(Phase2Threw(Cur, e))
  /\ UNCHANGED << calls, lastOp, candidates, selected >>

\* ---------------------------------------------------------- specifications
Targets == AgentIds \cup {Ghost}

Register == \E a \in AgentIds : RegisterAgent(a)
Send == \E to \in Targets, type \in MessageTypes : SendMessage(to, type, "low")
SendRequest == \E to \in Targets : SendMessage(to, "request", "low")
Broadcast == \E type \in MessageTypes : BroadcastMessage(type)
Assign == \E t \in {CI, TA, Other}, p \in Priorities : AssignTask(t, p)
Resume == \E m \in MessageIds : DrainResume(m)
RequestReturns == \E e \in executing : HandleRequestReturns(e)
RequestThrows == \E e \in executing : HandleRequestThrows(e)
Coordinate == \E r \in RunIds : CoordinateICPAnalysis(r)
GatheringReturns == \E e \in executing : GatheringTaskReturns(e)
GatheringThrows == \E e \in executing : GatheringTaskThrows(e)
DiscoveryReturns == \E e \in executing : DiscoveryTaskReturns(e)
DiscoveryThrows == \E e \in executing : DiscoveryTaskThrows(e)

\* the message-queue path alone
NextQueue ==
  \/ Register
  \/ Send
  \/ Broadcast
  \/ Assign
  \/ Resume
  \/ RequestReturns
  \/ RequestThrows

SpecQueue == Init /\ [][NextQueue]_vars

\* the direct-call coordination alone
NextCoord ==
  \/ Register
  \/ Coordinate
  \/ GatheringReturns
  \/ GatheringThrows
  \/ DiscoveryReturns
  \/ DiscoveryThrows

SpecCoord == Init /\ [][NextCoord]_vars

\* both dispatch paths of one hub: the message queue next to one
\* coordinateICPAnalysis call
Next ==
  \/ Register
  \/ (calls < MaxOps /\ SendRequest)
  \/ (calls < MaxOps /\ Assign)
  \/ CoordinateICPAnalysis(1)
  \/ Resume
  \/ RequestReturns
  \/ RequestThrows
  \/ GatheringReturns
  \/ GatheringThrows
  \/ DiscoveryReturns
  \/ DiscoveryThrows

Spec == Init /\ [][Next]_vars

TypeOK ==
  /\ isProcessing \in BOOLEAN
  /\ \A a \in AgentIds : agent[a].status \in {"idle", "busy", "error"}
  /\ \A m \in MessageIds :
       call[m] \in {"none", "run", "await", "rejecting", "returned", "threw"}

\* ------------------------------------------- the scheduling functions alone
\* a call of the public findSuitableAgents(taskType)
FindSuitableAgents(taskType) ==
  /\ lastOp' = [op |-> "findSuitableAgents", taskType |-> taskType,
                result |-> findSuitableAgents(agents, agent, taskType)]
  /\ UNCHANGED engineVars
  /\ UNCHANGED << eventCallbacks, agents, messageQueue, isProcessing, agent,
                  agentMessageQueue,
                  executing, call, runs, events, dequeued, delivered,
                  execCalls, idleRequests, nextId, calls, candidates, selected >>

InitFind == \E capabilities \in [AgentIds -> CapabilityMenu] : InitWith(capabilities)

NextFind ==
  \/ Register
  \/ \E t \in TaskTypes : FindSuitableAgents(t)

SpecFind == InitFind /\ [][NextFind]_vars

\* Agent records as getStatus() can return them, with any status and queue
Statuses == {"idle", "busy", "error"}
RECURSIVE Filled(_)
Filled(n) == IF n = 0 THEN << >> ELSE Append(Filled(n - 1), n)
\* the i-th candidate is a distinct agent, in any status, with any queue
CandidateRecords(i) ==
  { [NewAgent("agent-" \o ToString(i), << >>)
       EXCEPT !.status = st, !.messageQueue = Filled(n)] :
      st \in Statuses, n \in 0..MaxQueueLen }

\* a caller collects the candidate list it will hand to selectBestAgent
AddCandidate(c) ==
  /\ Len(candidates) < MaxCandidates
  /\ candidates' = Append(candidates, c)
  /\ selected' = Undefined
  /\ lastOp' = [op |-> "addCandidate"]
  /\ UNCHANGED engineVars
  /\ UNCHANGED << eventCallbacks, agents, messageQueue, isProcessing, agent,
                  agentMessageQueue,
                  executing, call, runs, events, dequeued, delivered,
                  execCalls, idleRequests, nextId, calls >>

\* a call of the public selectBestAgent(agents, priority)
SelectBestAgent(priority) ==
  /\ candidates # << >>
  /\ selected' = selectBestAgent(candidates, priority)
  /\ lastOp' = [op |-> "selectBestAgent", priority |-> priority]
  /\ UNCHANGED engineVars
  /\ UNCHANGED << eventCallbacks, agents, messageQueue, isProcessing, agent,
                  agentMessageQueue,
                  executing, call, runs, events, dequeued, delivered,
                  execCalls, idleRequests, nextId, calls, candidates >>

NextSelect ==
  \/ \E c \in CandidateRecords(Len(candidates) + 1) : AddCandidate(c)
  \/ \E p \in Priorities : SelectBestAgent(p)

SpecSelect == Init /\ [][NextSelect]_vars

\* ------------------------------------------- LangGraphSearchEngine actions
\* one superstep of graph.invoke: node n returned `result`
Step(n, result) ==
  /\ node = n
  /\ steps < recursionLimit
  /\ state' = ApplyUpdate(state, result.update)
  /\ node' = route(n, ApplyUpdate(state, result.update))
  /\ steps' = steps + 1
  /\ searchEvents' = EmitAll(searchEvents, result.events)
  /\ lastBatch' = IF "sources" \in DOMAIN result.update
                  THEN Some(result.update.sources) ELSE lastBatch
  /\ UNCHANGED << coordinationVars, functionVars >>

\* search(query, onEvent): graph.invoke(initialState, ...) enters at START
Search ==
  /\ node = "START"
  /\ state' = ApplyUpdate(SearchStateDefault, initialState)
  /\ node' = route("START", ApplyUpdate(SearchStateDefault, initialState))
  /\ steps' = 0
  /\ lastBatch' = Some(initialState.sources)
  /\ UNCHANGED << searchEvents, lastCheck, retrieval >>
  /\ UNCHANGED << coordinationVars, functionVars >>

Understand ==
  /\ \E ok \in BOOLEAN : Step("understand", understand(state, ok))
  /\ UNCHANGED retrieval
  /\ lastCheck' = Undefined

Extractions ==
  {[array |-> FALSE, n |-> 0]} \cup {[array |-> TRUE, n |-> n] : n \in 0..MaxSubQueries}
AlternativeCounts ==
  0..(IF MaxSubQueries < MAX_SEARCH_QUERIES THEN MaxSubQueries ELSE MAX_SEARCH_QUERIES)

\* extractSubQueries is called while state.subQueries is undefined,
\* generateAlternativeSearchQueries once searchAttempt > 0
Plan(extractions) ==
  /\ \E extraction \in (IF state.subQueries = Undefined THEN extractions
                         ELSE {[array |-> TRUE, n |-> 0]}),
        alternatives \in (IF state.searchAttempt > 0 THEN AlternativeCounts
                          ELSE {0}) :
       LET result == plan(state, extraction, alternatives)
       IN /\ Step("plan", result)
          /\ retrieval' = IF "searchQueries" \in DOMAIN result.update
                          THEN [retrieval EXCEPT !.issued = << >>]
                          ELSE retrieval
  /\ lastCheck' = Undefined

\* firecrawl.search throws, or returns one of the menu's result lists
SearchNode(menu) ==
  \E result \in {[ok |-> FALSE, data |-> << >>]}
                 \cup (IF CallsFirecrawl(state)
                       THEN {[ok |-> TRUE, data |-> data] : data \in menu}
                       ELSE {}) :
    /\ Step("search", search(state, result))
    /\ retrieval' = IF CallsFirecrawl(state)
                    THEN [retrieval EXCEPT
                            !.attempted = TRUE,
                            !.succeeded = retrieval.succeeded \/ result.ok,
                            !.issued = Append(retrieval.issued,
                                              QueriesOf(state)[state.currentSearchIndex + 1])]
                    ELSE retrieval
    /\ lastCheck' = Undefined

\* the urls scrapeUrl is called for
ScrapedUrls(st) ==
  LET tried == FirstN(Keep(st.sources, FALSE), MAX_SOURCES_TO_SCRAPE)
  IN {tried[i].url : i \in 1..Len(tried)}

Scrape ==
  /\ \E reachable \in SUBSET ScrapedUrls(state) :
       LET result == scrape(state, reachable)
       IN /\ Step("scrape", result)
          /\ retrieval' = [retrieval EXCEPT !.scrapeCalls = result.calls]
  /\ lastCheck' = Undefined

\* the answers an answer check can give for n questions: the call throws
\* or its text does not parse, or it names a confidence for some questions
Checks(n, confidences) ==
  {[parsed |-> FALSE, results |-> [i \in 1..n |-> {}]]} \cup
  {[parsed |-> TRUE, results |-> r] :
     r \in [1..n -> {{}} \cup {{c} : c \in confidences}]}

\* the LLM is asked only when there are sub-queries and sources
Analyze(confidences) ==
  /\ \E check \in (IF state.subQueries = Undefined \/ AllSources(state) = << >>
                    THEN {[parsed |-> FALSE, results |-> << >>]}
                    ELSE Checks(Len(state.subQueries.value), confidences)) :
       /\ Step("analyze", analyze(state, check))
       /\ lastCheck' = Some(check)
  /\ UNCHANGED retrieval

Synthesize ==
  /\ \E ok \in BOOLEAN : Step("synthesize", synthesize(state, ok))
  /\ UNCHANGED retrieval
  /\ lastCheck' = Undefined

HandleError ==
  /\ Step("handleError", handleError(state))
  /\ UNCHANGED retrieval
  /\ lastCheck' = Undefined

Complete ==
  /\ Step("complete", complete(state))
  /\ UNCHANGED retrieval
  /\ lastCheck' = Undefined

\* graph.invoke rejects with GraphRecursionError when recursionLimit
\* supersteps have run and the graph has not reached END; the catch of
\* search() reports it
RecursionLimitReached ==
  /\ node \notin {"START", "END", "threw"}
  /\ steps = recursionLimit
  /\ node' = "threw"
  /\ searchEvents' =
       eventCallback(searchEvents,
                     [type |-> "error", node |-> "search()",
                      error |-> "Recursion limit reached",
                      errorType |-> Some("unknown")])
  /\ lastCheck' = Undefined
  /\ UNCHANGED << state, steps, lastBatch, retrieval >>
  /\ UNCHANGED << coordinationVars, functionVars >>

\* the phase machine: up to MaxSubQueries sub-queries, a search that finds
\* nothing or one page
PlanSearch == Plan(Extractions)
RunSearch == SearchNode({<< >>, << Source("u1", "markdown") >>})
CheckAnswers == Analyze({5})

NextSearch ==
  \/ Search
  \/ Understand
  \/ PlanSearch
  \/ RunSearch
  \/ Scrape
  \/ CheckAnswers
  \/ Synthesize
  \/ HandleError
  \/ Complete
  \/ RecursionLimitReached

SpecSearch == Init /\ [][NextSearch]_vars

\* the sources and the answer checks of a run: a query with at most two
\* sub-queries, any search results of the menu, the first MaxSteps supersteps
PlanSources == Plan({e \in Extractions : e.n <= 2})
FindSources == SearchNode(SearchResultMenu)
RecheckAnswers == Analyze(CheckConfidences)

NextSources ==
  \/ Search
  \/ (steps < MaxSteps /\ Understand)
  \/ (steps < MaxSteps /\ PlanSources)
  \/ (steps < MaxSteps /\ FindSources)
  \/ (steps < MaxSteps /\ Scrape)
  \/ (steps < MaxSteps /\ RecheckAnswers)
  \/ (steps < MaxSteps /\ Synthesize)
  \/ (steps < MaxSteps /\ HandleError)
  \/ (steps < MaxSteps /\ Complete)

SpecSources == Init /\ [][NextSources]_vars

\* handleError and its edge on the states a SearchState can hold when the
\* node is entered: phase 'error', any ErrorType or none, a message or none,
\* any number of retries and search rounds so far
ErrorTypes == {"search", "scrape", "llm", "unknown"}
HandleErrorInputs ==
  {[SearchStateDefault EXCEPT !.phase = "error",
                              !.error = error,
                              !.errorType = errorType,
                              !.retryCount = retryCount,
                              !.searchAttempt = searchAttempt] :
     error \in {Undefined, Some("Failed to generate answer")},
     errorType \in {Undefined} \cup {Some(e) : e \in ErrorTypes},
     retryCount \in 0..MAX_RETRIES,
     searchAttempt \in 0..MAX_SEARCH_ATTEMPTS}
InitHandleError ==
  \E st \in HandleErrorInputs :
    /\ InitHub(DefaultCapabilities)
    /\ InitEngine(st, "handleError", 1)
    /\ InitFunctions(<< >>, Undefined)
SpecHandleError == InitHandleError /\ [][HandleError]_vars

\* ================================================================== claims
ActiveDrains == {m \in MessageIds : call[m] \in {"run", "await", "rejecting"}}
CountIn(queue, m) == Cardinality({i \in 1..Len(queue) : queue[i].id = m})
InHubQueue(m) == CountIn(messageQueue, m)
Sent == 1..(nextId - 1)
QueueExecutions(a) == {e \in executing : e.agent = a /\ e.via = "queue"}
Requests(queue) == {i \in 1..Len(queue) : queue[i].type = "request"}

\* C1: under every interleaving of sendMessage calls, also those made while
\* the drain is suspended in agent.processMessage, at most one drain loop of
\* processMessageQueue is active; every enqueued message is shifted off the
\* queue exactly once (it is in the queue or has been dequeued, never both,
\* never twice), is handed to processMessage at most once, and no message
\* is left in the queue when no drain is active.
C1_SingleDrain ==
  /\ Cardinality(ActiveDrains) <= 1
  /\ isProcessing <=> ActiveDrains # {}
  /\ \A m \in Sent : InHubQueue(m) + dequeued[m] = 1 /\ delivered[m] <= 1
  /\ \A m \in MessageIds \ Sent : InHubQueue(m) = 0 /\ dequeued[m] = 0
  /\ ActiveDrains = {} => messageQueue = << >>

\* a sendMessage call that arrived while another call's drain was suspended
\* in processMessage returned at once, its message still queued
C1_Witness ==
  \E m1, m2 \in Sent :
    /\ call[m1] = "await"
    /\ call[m2] = "returned"
    /\ InHubQueue(m2) = 1

\* C6: a request handed to processMessage while the agent is idle makes
\* exactly one executeTask call (idle -> busy); when it returns the agent is
\* idle again and one task-completed event is emitted, when it throws the
\* agent is in error and one agent-error event is emitted; a request that
\* arrives while the agent is not idle makes no executeTask call.
C6_State ==
  \A a \in AgentIds :
    /\ execCalls[a] = idleRequests[a]
    /\ events[<< "task-assigned", a >>] = execCalls[a]
    /\ Cardinality(QueueExecutions(a)) <= 1
    /\ events[<< "task-completed", a >>] + events[<< "agent-error", a >>]
         + Cardinality(QueueExecutions(a)) = execCalls[a]
    /\ QueueExecutions(a) # {} => agent[a].status = "busy"

C6_Step ==
  \A a \in AgentIds :
    /\ execCalls'[a] # execCalls[a] =>
         /\ execCalls'[a] = execCalls[a] + 1
         /\ agent[a].status = "idle" /\ agent'[a].status = "busy"
         /\ Cardinality(Requests(agentMessageQueue'[a]))
              = Cardinality(Requests(agentMessageQueue[a])) + 1
    /\ (Cardinality(Requests(agentMessageQueue'[a]))
          > Cardinality(Requests(agentMessageQueue[a]))
        /\ agent[a].status # "idle") => execCalls'[a] = execCalls[a]
    /\ events'[<< "task-completed", a >>] # events[<< "task-completed", a >>] =>
         /\ events'[<< "task-completed", a >>] = events[<< "task-completed", a >>] + 1
         /\ agent[a].status = "busy" /\ agent'[a].status = "idle"
         /\ events'[<< "agent-error", a >>] = events[<< "agent-error", a >>]
    /\ events'[<< "agent-error", a >>] # events[<< "agent-error", a >>] =>
         /\ events'[<< "agent-error", a >>] = events[<< "agent-error", a >>] + 1
         /\ agent[a].status = "busy" /\ agent'[a].status = "error"
         /\ events'[<< "task-completed", a >>] = events[<< "task-completed", a >>]
    /\ (QueueExecutions(a) # {} /\ QueueExecutions(a) \cap executing' = {}) =>
         \/ events'[<< "task-completed", a >>] = events[<< "task-completed", a >>] + 1
         \/ events'[<< "agent-error", a >>] = events[<< "agent-error", a >>] + 1

C6_OneExecutionPerIdleRequest == []C6_State /\ [][C6_Step]_vars

\* one agent finished a request and is idle again, another failed one and
\* is in error, and a request has reached an agent that was not idle
C6_Witness ==
  \E a, b \in AgentIds :
    /\ events[<< "task-completed", a >>] = 1 /\ agent[a].status = "idle"
    /\ events[<< "agent-error", b >>] = 1 /\ agent[b].status = "error"
    /\ Cardinality(Requests(agentMessageQueue[b])) > execCalls[b]

\* C7: an agent whose status is error keeps it through every hub operation
\* (sendMessage, assignTask, broadcastMessage, coordinateICPAnalysis), and a
\* request message delivered to it afterwards is put on its queue and never
\* executed: handleRequest makes no executeTask call for it.
C7_Step ==
  \A a \in AgentIds :
    agent[a].status = "error" =>
      /\ agent'[a].status = "error"
      /\ execCalls'[a] = execCalls[a]
      /\ QueueExecutions(a) = {} /\ (executing' \ executing) \cap
           {e \in executing' : e.agent = a /\ e.via = "queue"} = {}
      /\ \A i \in 1..Len(messageQueue) :
           LET message == messageQueue[i]
           IN (message.to = a /\ dequeued'[message.id] > dequeued[message.id]
               /\ SeqContains(agents, a)) =>
                /\ agentMessageQueue'[a] =
                     Append(agentMessageQueue[a],
                            [id |-> message.id, type |-> message.type])
                /\ delivered'[message.id] = 1

C7_ErrorIsAbsorbing == [][C7_Step]_vars

\* an agent failed a request; a later request was delivered to it and only
\* queued, and a coordination run has finished, the agent still in error
C7_Witness ==
  \E a \in AgentIds :
    /\ agent[a].status = "error"
    /\ execCalls[a] = 1
    /\ Cardinality(Requests(agentMessageQueue[a])) = 2
    /\ runs[1].pc = "done"
    /\ \E t \in GatheringTypes : runs[1].gatheredData[t] = Result(t, a)

Capable(a, taskType) ==
  \E i \in 1..Len(agent[a].capabilities) :
    taskType \in Range(agent[a].capabilities[i].inputTypes)

\* C8: assignTask throws the no-suitable-agent error iff no registered agent
\* can handle the task type; then nothing is enqueued, no agent's status
\* changes, no event is emitted and the hub is as before (so later calls are
\* unaffected). Otherwise exactly one request message is enqueued, addressed
\* to the agent selectBestAgent picks among the suitable agents.
C8_Step ==
  (calls' = calls + 1 /\ lastOp'.op = "assignTask") =>
    LET taskType == lastOp'.taskType
        suitable == findSuitableAgents(agents, agent, taskType)
        chosen == selectBestAgent(suitable, lastOp'.priority)
        held(queue) == \E i \in 1..Len(queue) :
                         queue[i].id = nextId /\ queue[i].type = "request"
    IN /\ lastOp'.threw <=> ~(\E a \in Range(agents) : Capable(a, taskType))
       /\ lastOp'.threw =>
            UNCHANGED << agents, messageQueue, isProcessing, agent,
                         agentMessageQueue, executing, call, runs, events,
                         dequeued, delivered, execCalls, idleRequests, nextId >>
       /\ ~lastOp'.threw =>
            /\ nextId' = nextId + 1
            /\ \A m \in MessageIds \ {nextId} :
                 CountIn(messageQueue', m) + dequeued'[m]
                   = CountIn(messageQueue, m) + dequeued[m]
            /\ CountIn(messageQueue', nextId) + dequeued'[nextId] = 1
            /\ \/ \E i \in 1..Len(messageQueue') :
                    /\ messageQueue'[i].id = nextId
                    /\ messageQueue'[i].to = chosen.id
                    /\ messageQueue'[i].type = "request"
                    /\ messageQueue'[i].taskType = taskType
               \/ /\ dequeued'[nextId] = 1
                  /\ held(agentMessageQueue'[chosen.id])
                  /\ \A b \in AgentIds \ {chosen.id} : ~held(agentMessageQueue'[b])

C8_AssignTask == [][C8_Step]_vars

\* with agents registered and an earlier request accepted, an assignTask
\* call for a type nobody handles has just thrown
C8_Witness ==
  /\ lastOp.op = "assignTask" /\ lastOp.threw
  /\ agents # << >>
  /\ nextId > 1
  /\ \E a \in AgentIds : agent[a].status = "busy"

\* a task is handed to an agent iff some registered agent can handle its type
Dispatchable(taskType) == Len(findSuitableAgents(agents, agent, taskType)) > 0
CoordinatedTypes == GatheringTypes \cup {TCD}
Slot(combinedData, taskType) ==
  CASE taskType = CI -> combinedData.customerIntelligence
    [] taskType = MR -> combinedData.marketResearch
    [] taskType = FA -> combinedData.firmographicData
    [] taskType = TA -> combinedData.technographicData
    [] taskType = PA -> combinedData.psychographicData
    [] OTHER -> combinedData.targetCompanyData
Populated(value, taskType) ==
  \E a \in Range(agents) : Capable(a, taskType) /\ value = Result(taskType, a)
RECURSIVE SumErrors(_)
SumErrors(r) == IF r = 0 THEN 0 ELSE runs[r].agentErrors + SumErrors(r - 1)

C3_AllStartedBeforeAnySettles ==
  \A r \in RunIds :
    runs[r].settled \cap GatheringTypes # {} =>
      \A t \in GatheringTypes : Dispatchable(t) => t \in runs[r].started

C5_OneExecutionPerAgent ==
  \A a \in AgentIds : Cardinality({e \in executing : e.agent = a}) <= 1

\* C9: findSuitableAgents(t) returns exactly the registered agents that
\* declare a capability whose inputTypes contains t, each once and as
\* getStatus() gives it, and the call changes no hub or agent state.
C9_State ==
  \A t \in TaskTypes :
    LET found == findSuitableAgents(agents, agent, t)
    IN /\ \A i, j \in 1..Len(found) : found[i].id = found[j].id => i = j
       /\ {found[i].id : i \in 1..Len(found)}
            = {a \in Range(agents) : Capable(a, t)}
       /\ \A i \in 1..Len(found) : found[i] = agent[found[i].id]
       /\ (lastOp.op = "findSuitableAgents" /\ lastOp.taskType = t) =>
            lastOp.result = found

C9_Step ==
  (lastOp' # lastOp /\ lastOp'.op = "findSuitableAgents") =>
    UNCHANGED << agents, messageQueue, isProcessing, agent, agentMessageQueue,
                 executing, call, runs, events, dequeued, delivered,
                 execCalls, idleRequests, nextId >>

C9_FindSuitableAgents == []C9_State /\ [][C9_Step]_vars

\* of two registered agents the call returned one: the other declares no
\* capability for the type, the returned one declares it in its second
C9_Witness ==
  /\ lastOp.op = "findSuitableAgents"
  /\ Len(agents) = 2
  /\ Len(lastOp.result) = 1
  /\ ~SeqContains(agent[lastOp.result[1].id].capabilities[1].inputTypes,
                   lastOp.taskType)

PriorityValues == 0..11
IsIdle(c) == c.status = "idle"

NoDuplicateUrls(list) ==
  \A i, j \in 1..Len(list) : list[i].url = list[j].url => i = j
\* the last record of a batch for a url
LastRecord(batch, url) ==
  batch[CHOOSE i \in 1..Len(batch) :
          /\ batch[i].url = url
          /\ \A j \in (i + 1)..Len(batch) : batch[j].url # url]

\* C11: in every state of a run SearchState.sources holds at most one entry
\* per url, and for every url of the batch merged last the entry is the
\* batch's last record for that url.
C11_OneEntryPerUrl ==
  /\ NoDuplicateUrls(state.sources)
  /\ lastBatch # Undefined =>
       \A i \in 1..Len(lastBatch.value) :
         \E j \in 1..Len(state.sources) :
           state.sources[j] = LastRecord(lastBatch.value, lastBatch.value[i].url)

\* a batch that names a url twice was merged in a replanning round, into
\* sources that held one of its urls already
C11_Witness ==
  /\ lastBatch # Undefined
  /\ ~NoDuplicateUrls(lastBatch.value)
  /\ Len(state.sources) = 2
  /\ state.searchAttempt >= 1

\* C12: over every step of a run a stored sub-query confidence never
\* decreases; a sub-query changes only in an analyze step whose check names
\* a strictly higher confidence for it, which it then holds; a check that
\* failed or did not parse leaves all sub-queries as they were.
C12_Step ==
  state.subQueries # Undefined =>
    /\ state'.subQueries # Undefined
    /\ Len(state'.subQueries.value) = Len(state.subQueries.value)
    /\ \A i \in 1..Len(state.subQueries.value) :
         LET old == state.subQueries.value[i]
             new == state'.subQueries.value[i]
         IN /\ new.confidence >= old.confidence
            /\ new # old =>
                 /\ lastCheck' # Undefined
                 /\ lastCheck'.value.parsed
                 /\ lastCheck'.value.results[i] = {new.confidence}
                 /\ new.confidence > old.confidence
    /\ (lastCheck' # Undefined /\ ~lastCheck'.value.parsed) =>
         state'.subQueries = state.subQueries
C12_ConfidenceNeverDecreases == [][C12_Step]_vars

\* an analyze step has just been offered a lower confidence for a question
\* answered before, and another has raised a stored one
C12_WitnessLower ==
  /\ lastCheck # Undefined
  /\ lastCheck.value.parsed
  /\ state.subQueries # Undefined
  /\ \E i \in DOMAIN lastCheck.value.results :
       \E r \in lastCheck.value.results[i] :
         r < state.subQueries.value[i].confidence
C12_Witness ==
  /\ C12_WitnessLower
  /\ state.searchAttempt >= 2

\* C13: a run in which firecrawl.search was called and every call threw has
\* ended in phase error with the retry budget used up (retryCount equal to
\* maxRetries, that is maxRetries + 1 attempts).
C13_FailedSearchesExhaustRetries ==
  (node = "END" /\ retrieval.attempted /\ ~retrieval.succeeded) =>
    /\ state.phase = "error"
    /\ state.retryCount = state.maxRetries

\* the run is over: graph.invoke resolved at END, or it rejected
Stopped == node \in {"END", "threw"}

\* C14: a run stops only at END, entered from complete or from handleError
\* with the retry budget exhausted. (Every step raises `steps`, which the
\* recursion limit bounds, so every run stops.)
C14_RunStopsAtEnd ==
  Stopped =>
    /\ node = "END"
    /\ \/ searchEvents.last = Event("final-result", "complete")
       \/ /\ searchEvents.last.node = "handleError"
          /\ state.phase = "error"
          /\ state.retryCount >= state.maxRetries

Failed ==
  \/ node = "END" /\ state.phase = "error"
  \/ node = "threw"

\* C16: a run that ended in failure has emitted exactly one error event, as
\* its last event, with a message and an error kind.
C16_OneTerminalErrorEvent ==
  Failed =>
    /\ searchEvents.error = 1
    /\ searchEvents.last.type = "error"
    /\ searchEvents.last.error # ""
    /\ searchEvents.last.errorType # Undefined

\* handleError has just granted a retry: it was the last node to run and the
\* graph goes on
RetryGranted ==
  /\ searchEvents.last.node = "handleError"
  /\ ~Stopped

\* C20: in the state the next node sees after a granted retry, error and
\* errorType are undefined.
C20_RetryClearsError ==
  RetryGranted =>
    /\ state.error = Undefined
    /\ state.errorType = Undefined

\* C19: after handleError ran with retryCount < maxRetries the next node is
\* search when errorType was 'search' and understand otherwise; with
\* retryCount >= maxRetries the run ends in phase error.
C19_Step ==
  node = "handleError" =>
    IF state.retryCount < state.maxRetries
    THEN node' = (IF state.errorType = Some("search")
                  THEN "search" ELSE "understand")
    ELSE node' = "END" /\ state'.phase = "error"
MaxProfiles == 2
\* how a callLLM call settles: it throws, or it returns text that is no
\* JSON, JSON that is no array, or a JSON array of n profiles
LLMAnswers ==
  {[kind |-> k, n |-> 0] : k \in {"threw", "text", "object"}} \cup
  {[kind |-> "array", n |-> n] : n \in 0..MaxProfiles}
\* the array in the answer to call number `step`
ProfilesOf(step, n) == [i \in 1..n |-> [from |-> step, index |-> i]]

\* extractICPProfilesFromText and its two siblings: return []
extractICPProfilesFromText == << >>

\* faulty variant: parsed JSON that is no array is returned wrapped
parseProfilesWithInsights_Wraps(response, step) ==
  IF response.kind = "text" THEN extractICPProfilesFromText
  ELSE IF response.kind = "array" THEN ProfilesOf(step, response.n)
  ELSE << [from |-> step, index |-> 0] >>

\* parseICPProfiles, parseValidatedProfiles: JSON.parse, Array.isArray
parseICPProfiles(response, step) ==
  IF response.kind = "text" THEN extractICPProfilesFromText
  ELSE IF response.kind = "array" THEN ProfilesOf(step, response.n)
  ELSE << >>
parseProfilesWithInsights(response, step) ==
  IF response.kind = "text" THEN extractICPProfilesFromText
  ELSE IF response.kind = "array" THEN ProfilesOf(step, response.n)
  ELSE << >>

Threw(message, parsed) ==
  [outcome |-> "threw", message |-> message, profiles |-> << >>,
   parsed |-> parsed]

\* ICPSynthesisAgent.executeTask: synthesizeICPProfiles,
\* validateAndPrioritizeProfiles, generateInsights in turn; `parsed` keeps
\* the list each finished step returned
synthesisExecuteTask(task) ==
  IF ~task.combinedResearchData
  THEN Threw("No combined research data provided", << >>)
  ELSE IF task.llm[1].kind = "threw" THEN Threw("LLM call failed", << >>)
  ELSE
    LET icpProfiles == parseICPProfiles(task.llm[1], 1)
    IN IF task.llm[2].kind = "threw"
       THEN Threw("LLM call failed", << icpProfiles >>)
       ELSE
         LET validatedProfiles == parseICPProfiles(task.llm[2], 2)
         IN IF task.llm[3].kind = "threw"
            THEN Threw("LLM call failed", << icpProfiles, validatedProfiles >>)
            ELSE
              LET profilesWithInsights ==
                    parseProfilesWithInsights(task.llm[3], 3)
              IN [outcome |-> "returned", message |-> "",
                  profiles |-> profilesWithInsights,
                  parsed |-> << icpProfiles, validatedProfiles,
                                profilesWithInsights >>]

SynthesisTasks ==
  [combinedResearchData : BOOLEAN, llm : [1..3 -> LLMAnswers]]

InitSynthesis ==
  \E task \in SynthesisTasks :
    /\ InitHub(DefaultCapabilities)
    /\ InitEngine(SearchStateDefault, "START", 0)
    /\ InitFunctions(<< >>, task)

SynthesisExecuteTask ==
  /\ synthesisTask # Undefined
  /\ synthesisResult = Undefined
  /\ synthesisResult' = Some(synthesisExecuteTask(synthesisTask))
  /\ UNCHANGED << coordinationVars, graphVars, gatheredData,
                  overallConfidence, synthesisTask >>

SpecSynthesis == InitSynthesis /\ [][SynthesisExecuteTask]_vars

\* the LLM call of step s was made
CallMade(task, s) ==
  /\ task.combinedResearchData
  /\ \A j \in 1..(s - 1) : task.llm[j].kind # "threw"

\* C18 as stated: executeTask returns the empty list whenever the answer of
\* any of its three steps is no JSON array, and it throws only when the
\* research data is missing or an LLM call throws.
C18_EmptyWhenAnyStepUnparsable ==
  synthesisResult # Undefined =>
    LET task == synthesisTask
        result == synthesisResult.value
    IN /\ (/\ task.combinedResearchData
           /\ \A s \in 1..3 : task.llm[s].kind # "threw"
           /\ \E s \in 1..3 : task.llm[s].kind # "array") =>
            (result.outcome = "returned" /\ result.profiles = << >>)
       /\ result.outcome = "threw" =>
            \/ ~task.combinedResearchData
            \/ \E s \in 1..3 : CallMade(task, s) /\ task.llm[s].kind = "threw"

\* C18 amended: executeTask throws exactly when the research data is missing
\* or an LLM call that was made throws; every finished step returns [] for
\* an answer that is no JSON array; and the list executeTask returns is the
\* one parsed from the third answer alone.
C18_ResultIsThirdAnswer ==
  synthesisResult # Undefined =>
    LET task == synthesisTask
        result == synthesisResult.value
    IN /\ result.outcome = "threw" <=>
            \/ ~task.combinedResearchData
            \/ \E s \in 1..3 : CallMade(task, s) /\ task.llm[s].kind = "threw"
       /\ \A s \in DOMAIN result.parsed :
            task.llm[s].kind # "array" => result.parsed[s] = << >>
       /\ result.outcome = "returned" =>
            result.profiles = IF task.llm[3].kind = "array"
                              THEN ProfilesOf(3, task.llm[3].n) ELSE << >>

\* the first answer was no JSON, the third an array of profiles, and
\* executeTask returned them
C18_Witness ==
  /\ synthesisResult # Undefined
  /\ synthesisTask.llm[1].kind = "text"
  /\ synthesisTask.llm[3].kind = "array"
  /\ synthesisResult.value.outcome = "returned"
  /\ synthesisResult.value.profiles # << >>


\* ---------------------------------- AgentHub: calculateOverallConfidence
\* JavaScript numbers are IEEE-754 binary64.  A double is held here as the
\* integer value * 2^FractionBits, written in LimbCount limbs of LimbBits
\* bits, most significant limb first; every operation rounds its exact
\* result to SignificandBits significant bits, ties to even.

SignificandBits == 53
FractionBits == 60
LimbBits == 13
LimbBase == 2 ^ LimbBits
LimbCount == 6

BigFromSmall(k) == [i \in 1..LimbCount |-> IF i = LimbCount THEN k ELSE 0]

RECURSIVE BigAddFrom(_, _, _, _)
BigAddFrom(a, b, i, carry) ==
  IF i = 0 THEN << >>
  ELSE LET total == a[i] + b[i] + carry
       IN IF total >= LimbBase
          THEN Append(BigAddFrom(a, b, i - 1, 1), total - LimbBase)
          ELSE Append(BigAddFrom(a, b, i - 1, 0), total)

\* exact sum
BigAdd(a, b) == BigAddFrom(a, b, LimbCount, 0)

RECURSIVE BigMulFrom(_, _, _, _)
BigMulFrom(a, k, i, carry) ==
  IF i = 0 THEN << >>
  ELSE LET total == a[i] * k + carry
       IN IF total >= LimbBase
          THEN Append(BigMulFrom(a, k, i - 1, total \div LimbBase),
                      total % LimbBase)
          ELSE Append(BigMulFrom(a, k, i - 1, 0), total)

\* exact product with a small integer
BigMulSmall(a, k) == BigMulFrom(a, k, LimbCount, 0)

RECURSIVE BigShiftLeft(_, _)
BigShiftLeft(a, bits) ==
  IF bits = 0 THEN a
  ELSE IF bits >= LimbBits
       THEN BigShiftLeft(BigMulSmall(a, LimbBase), bits - LimbBits)
       ELSE BigMulSmall(a, 2 ^ bits)

RECURSIVE BigDivFrom(_, _, _, _)
BigDivFrom(a, n, i, rem) ==
  IF i > LimbCount THEN [q |-> << >>, r |-> rem]
  ELSE LET v == rem * LimbBase + a[i]
       IN IF v < n
          THEN LET rest == BigDivFrom(a, n, i + 1, v)
               IN [q |-> << 0 >> \o rest.q, r |-> rest.r]
          ELSE LET rest == BigDivFrom(a, n, i + 1, v % n)
               IN [q |-> << v \div n >> \o rest.q, r |-> rest.r]

\* quotient and remainder of a division by a small integer
BigDivSmall(a, n) == BigDivFrom(a, n, 1, 0)

BigLeq(a, b) ==
  \/ a = b
  \/ \E i \in 1..LimbCount :
       /\ a[i] < b[i]
       /\ \A j \in 1..(i - 1) : a[j] = b[j]

RECURSIVE SmallBitLength(_)
SmallBitLength(k) == IF k = 0 THEN 0 ELSE 1 + SmallBitLength(k \div 2)

BitLength(a) ==
  IF \A i \in 1..LimbCount : a[i] = 0 THEN 0
  ELSE LET first == CHOOSE i \in 1..LimbCount :
                      /\ a[i] # 0
                      /\ \A j \in 1..(i - 1) : a[j] = 0
       IN LimbBits * (LimbCount - first) + SmallBitLength(a[first])

\* a, an exact value scaled by 2^guardBits whose cut-off tail is nonzero
\* when sticky, rounded to the nearest double, ties to even
RoundToDouble(a, sticky, guardBits) ==
  LET drop == BitLength(a) - SignificandBits
      cut == BigDivSmall(a, 2 ^ drop)
      half == 2 ^ (drop - 1)
      odd == cut.q[LimbCount] % 2 = 1
      up == \/ cut.r > half
            \/ cut.r = half /\ (sticky \/ odd)
      kept == IF up THEN BigAdd(cut.q, BigFromSmall(1)) ELSE cut.q
  IN BigShiftLeft(kept, drop - guardBits)

\* x + y of two doubles
DoubleAdd(x, y) == RoundToDouble(BigAdd(x, y), FALSE, 0)

\* x / n of a double and a small integer
DoubleDivide(x, n) ==
  LET division == BigDivSmall(BigShiftLeft(x, 4), n)
  IN RoundToDouble(division.q, division.r # 0, 4)

DoubleFromInt(k) == BigShiftLeft(BigFromSmall(k), FractionBits)

\* the double a decimal literal 0.k denotes (1.0 for k = 10)
Tenths(k) == DoubleDivide(DoubleFromInt(k), 10)

\* the unit in the last place of x
Ulp(x) == BigShiftLeft(BigFromSmall(1), BitLength(x) - SignificandBits)

\* a task result with a numeric confidence, and one without
WithConfidence(c) == [confidence |-> Some(c)]
NoConfidence == [confidence |-> Undefined]

\* .filter(...).map(item => item.confidence).filter(typeof conf === 'number')
RECURSIVE NumericConfidences(_)
NumericConfidences(data) ==
  IF data = << >> THEN << >>
  ELSE LET item == Head(data)
       IN IF item.confidence = Undefined
          THEN NumericConfidences(Tail(data))
          ELSE << item.confidence.value >> \o NumericConfidences(Tail(data))

\* confidences.reduce((sum, conf) => sum + conf, 0) over the first n
RECURSIVE ReduceSum(_, _)
ReduceSum(confidences, n) ==
  IF n = 0 THEN DoubleFromInt(0)
  ELSE DoubleAdd(ReduceSum(confidences, n - 1), confidences[n])

\* faulty variant: divides by the number of gathered results
calculateOverallConfidence_CountsAll(data) ==
  LET confidences == NumericConfidences(data)
  IN IF Len(confidences) = 0 THEN Tenths(5)
     ELSE DoubleDivide(ReduceSum(confidences, Len(confidences)), Len(data))

calculateOverallConfidence(data) ==
  LET confidences == NumericConfidences(data)
  IN IF Len(confidences) = 0 THEN Tenths(5)
     ELSE DoubleDivide(ReduceSum(confidences, Len(confidences)),
                       Len(confidences))

\* the confidences the gathering agents report, in tenths
ConfidenceTenths == {1, 7, 9}

TaskResults == {NoConfidence} \cup {WithConfidence(Tenths(k)) : k \in ConfidenceTenths}

\* phase 1 stores one result per gathering task that did not fail
GatheredInputs ==
  UNION {[1..n -> TaskResults] : n \in 0..Cardinality(GatheringTypes)}

InitConfidence ==
  \E data \in GatheredInputs :
    /\ InitHub(DefaultCapabilities)
    /\ InitEngine(SearchStateDefault, "START", 0)
    /\ InitFunctions(data, Undefined)

CalculateOverallConfidence ==
  /\ overallConfidence = Undefined
  /\ synthesisTask = Undefined
  /\ overallConfidence' = Some(calculateOverallConfidence(gatheredData))
  /\ UNCHANGED << coordinationVars, graphVars, gatheredData,
                  synthesisTask, synthesisResult >>

SpecConfidence == InitConfidence /\ [][CalculateOverallConfidence]_vars

\* the exact sum of the first n confidences
RECURSIVE ExactSum(_, _)
ExactSum(confidences, n) ==
  IF n = 0 THEN BigFromSmall(0)
  ELSE BigAdd(ExactSum(confidences, n - 1), confidences[n])

\* every gathered result carries the same numeric confidence
AllReport(data, c) ==
  /\ data # << >>
  /\ \A i \in DOMAIN data : data[i] = WithConfidence(c)

HandleErrorRuns ==
  searchEvents.error - (IF node = "threw" THEN 1 ELSE 0)

\* C21: retryCount never exceeds maxRetries; it changes only in a handleError
\* step, by exactly one, and then the run goes on (a granted retry);
\* handleError runs at most maxRetries + 1 times in a run.
C21_Step ==
  /\ state.retryCount <= state.maxRetries
  /\ state'.retryCount <= state'.maxRetries
  /\ state'.maxRetries = MAX_RETRIES
  /\ state'.retryCount # state.retryCount =>
       /\ node = "handleError"
       /\ state'.retryCount = state.retryCount + 1
       /\ node' # "END"
  /\ HandleErrorRuns' <= state'.maxRetries + 1
C21_RetryCountBounded == [][C21_Step]_vars

\* handleError ran maxRetries + 1 times and gave up
C21_Witness ==
  /\ node = "END"
  /\ state.retryCount = state.maxRetries
  /\ HandleErrorRuns = state.maxRetries + 1

\* C22: when a plan step finds no unanswered sub-question (it leaves phase
\* 'analyzing'), the node that runs next is analyze.
C22_Step ==
  (node = "plan" /\ steps' = steps + 1 /\ state'.phase = "analyzing") =>
    node' = "analyze"
C22_PlanSkipsToAnalyze == [][C22_Step]_vars

\* C23: the queries issued since searchQueries was planned are its first
\* currentSearchIndex entries, in order and once each; a search step that
\* finds a query left issues it and advances the index by one, also when
\* the retrieval throws, and is followed by search while a query is left and
\* by scrape otherwise; scrape is entered only with every query issued.
C23_Step ==
  /\ state.currentSearchIndex <= Len(QueriesOf(state))
  /\ retrieval.issued = FirstN(QueriesOf(state), state.currentSearchIndex)
  /\ retrieval'.issued = FirstN(QueriesOf(state'), state'.currentSearchIndex)
  /\ (node = "search" /\ steps' = steps + 1) =>
       /\ state'.searchQueries = state.searchQueries
       /\ state'.currentSearchIndex =
            state.currentSearchIndex + (IF CallsFirecrawl(state) THEN 1 ELSE 0)
       /\ node' = (IF CallsFirecrawl(state') THEN "search" ELSE "scrape")
  /\ node' = "scrape" => retrieval'.issued = QueriesOf(state')
  /\ node \notin {"search", "plan"} =>
       UNCHANGED << state.searchQueries, state.currentSearchIndex >>
C23_QueriesIssuedOnceInOrder == [][C23_Step]_vars

\* a replanning round issued two queries or more, a retrieval threw and
\* another returned, and scrape is about to run
C23_Witness ==
  /\ node = "scrape"
  /\ state.searchAttempt >= 1
  /\ Len(retrieval.issued) >= 2
  /\ retrieval.succeeded
  /\ state.errorType = Some("search")

\* the sub-queries a state holds
SubQueriesOf(st) ==
  IF st.subQueries = Undefined THEN << >> ELSE st.subQueries.value
\* more sub-queries have confidence 0.3 or above than are marked answered
PartialInfo(subQueries) ==
  Cardinality({i \in 1..Len(subQueries) :
                 subQueries[i].confidence >= PartialAnswerConfidence})
    > Cardinality({i \in 1..Len(subQueries) : subQueries[i].answered})

\* C24: an analyze step is followed by plan exactly when, after its answer
\* check, some sub-query is not answered, the incremented searchAttempt is
\* below MAX_SEARCH_ATTEMPTS, and it is not so that partial information
\* exists with that searchAttempt >= 2; otherwise it is followed by
\* synthesize; either way the merged sources are stored and the phase
\* analyze leaves is never 'error'.
C24_Step ==
  (node = "analyze" /\ steps' = steps + 1) =>
    LET subQueries == SubQueriesOf(state')
        searchAttempt == state.searchAttempt + 1
        again ==
          /\ \E i \in 1..Len(subQueries) : ~subQueries[i].answered
          /\ searchAttempt < MAX_SEARCH_ATTEMPTS
          /\ ~(PartialInfo(subQueries) /\ searchAttempt >= 2)
    IN /\ node' = (IF again THEN "plan" ELSE "synthesize")
       /\ state'.phase = (IF again THEN "planning" ELSE "synthesizing")
       /\ state'.sources = AllSources(state)
       /\ state'.error = state.error
       /\ (state.subQueries # Undefined) => state'.searchAttempt = searchAttempt
C24_AnalyzeLoopsOrSynthesizes == [][C24_Step]_vars

\* analyze has just run for the last allowed round and goes on to
\* synthesize with a sub-query still unanswered
C24_Witness ==
  /\ node = "synthesize"
  /\ lastCheck # Undefined
  /\ state.searchAttempt = MAX_SEARCH_ATTEMPTS
  /\ \E i \in 1..Len(SubQueriesOf(state)) : ~SubQueriesOf(state)[i].answered
  /\ \E i \in 1..Len(SubQueriesOf(state)) : SubQueriesOf(state)[i].answered

\* C25: a query is issued only while fewer than MAX_SEARCH_ATTEMPTS rounds
\* have been analyzed, so at most MAX_SEARCH_ATTEMPTS rounds issue searches,
\* error retries included; searchAttempt goes up by one in each analyze step
\* and changes in no other.
C25_Step ==
  /\ (node = "search" /\ steps' = steps + 1 /\ CallsFirecrawl(state)) =>
       state.searchAttempt < MAX_SEARCH_ATTEMPTS
  /\ state'.searchAttempt =
       state.searchAttempt
         + (IF node = "analyze" /\ steps' = steps + 1 THEN 1 ELSE 0)
C25_AtMostMaxSearchRounds == [][C25_Step]_vars

\* C26: a run never needs more than recursionLimit node executions: when
\* that many nodes have run, the graph has reached END.
C26_StepBudgetCoversWorstCase ==
  steps = recursionLimit => node = "END"

\* C27: in a search step the scoring and summarizing of the sources found
\* is over before 'found' is emitted: the 'source-processing' event that
\* opens a source's processing is never the step's last event, 'found' is.
C27_Step ==
  (node = "search" /\ steps' = steps + 1) =>
    searchEvents'.last.type # "source-processing"
C27_FoundAfterSourceProcessing == [][C27_Step]_vars

\* ---------------------------------------------- the scrape node on its own
\* the scrape node entered with up to MaxSources stored sources, distinct by
\* url as the sources reducer leaves them, each with or without content
MaxSources == 8
UrlNames == << "u1", "u2", "u3", "u4", "u5", "u6", "u7", "u8", "u9", "u10" >>
ScrapeInputs ==
  {[SearchStateDefault EXCEPT
      !.phase = "scrape",
      !.subQueries = Some(NewSubQueries(1)),
      !.searchQueries = Some(Indices(1)),
      !.currentSearchIndex = 1,
      !.sources = [i \in 1..n |->
                     Source(UrlNames[i], IF i \in full THEN "markdown" ELSE "")]] :
     n \in {m \in 0..MaxSources : m <= Len(UrlNames)},
     full \in SUBSET (1..MaxSources)}
InitScrape ==
  \E st \in ScrapeInputs :
    /\ InitHub(DefaultCapabilities)
    /\ InitEngine(st, "scrape", 3)
    /\ InitFunctions(<< >>, Undefined)
SpecScrape == InitScrape /\ [][Scrape]_vars

\* list.filter: the entries whose content is not `content`
RECURSIVE Without(_, _)
Without(list, content) ==
  IF list = << >> THEN << >>
  ELSE IF Head(list).content = content THEN Without(Tail(list), content)
       ELSE << Head(list) >> \o Without(Tail(list), content)

\* C28: a scrape step calls scrapeUrl at most MAX_SOURCES_TO_SCRAPE times,
\* once for each of the first stored sources without content and for no
\* source that has content; every call that gives markdown adds the
\* enriched source after the sources that had content, whatever the other
\* calls did; retryCount and error stay as they were and the step is
\* followed by analyze in phase 'analyzing'.
C28_Step ==
  (node = "scrape" /\ steps' = steps + 1) =>
    LET made == retrieval'.scrapeCalls
        missing == {i \in 1..Len(state.sources) : state.sources[i].content = ""}
        rank(i) == Cardinality({j \in missing : j <= i})
        batch == SubSeq(state'.scrapedSources, Len(state.scrapedSources) + 1,
                        Len(state'.scrapedSources))
        passed == Without(state.sources, "")
        enriched == SubSeq(batch, Len(passed) + 1, Len(batch))
    IN /\ Len(made) <= MAX_SOURCES_TO_SCRAPE
       /\ \A i \in 1..Len(state.sources) :
            (i \in missing /\ rank(i) <= MAX_SOURCES_TO_SCRAPE)
              <=> \E k \in 1..Len(made) : made[k].url = state.sources[i].url
       /\ \A k, l \in 1..Len(made) : made[k].url = made[l].url => k = l
       /\ SubSeq(batch, 1, Len(passed)) = passed
       /\ \A k \in 1..Len(made) :
            made[k].ok <=> \E e \in 1..Len(enriched) :
                              /\ enriched[e].url = made[k].url
                              /\ enriched[e].content = "scraped"
       /\ Len(enriched) = Cardinality({k \in 1..Len(made) : made[k].ok})
       /\ state'.retryCount = state.retryCount
       /\ state'.error = state.error
       /\ state'.errorType = state.errorType
       /\ state'.phase = "analyzing"
       /\ node' = "analyze"
C28_ScrapeToleratesFailures == [][C28_Step]_vars

\* more sources lacked content than may be scraped; of the calls made one
\* failed and a later one gave markdown
C28_Witness ==
  /\ node = "analyze"
  /\ Len(retrieval.scrapeCalls) = MAX_SOURCES_TO_SCRAPE
  /\ Cardinality({i \in 1..Len(state.sources) : state.sources[i].content = ""})
       > MAX_SOURCES_TO_SCRAPE
  /\ \E k, l \in 1..Len(retrieval.scrapeCalls) :
       /\ k < l
       /\ ~retrieval.scrapeCalls[k].ok
       /\ retrieval.scrapeCalls[l].ok

\* ------------------------------------------ AgentHub: the agents of a run
\* a hub like the orchestrator's: one agent takes the coordinated task
\* types, the other (as the ICP synthesis agent) a type coordinateICPAnalysis
\* never hands out
SynthesisCapabilities ==
  [a \in AgentIds |->
     IF a = "a1" THEN << Cap(<< CI, MR, FA, TA, PA, TCD >>) >>
     ELSE << Cap(<< Other >>) >>]
InitSynthesisRegistered == InitWith(SynthesisCapabilities)
SpecCoordSynthesis == InitSynthesisRegistered /\ [][NextCoord]_vars

\* C29: the agentsUsed of the CombinedResearchData a run returned are
\* exactly the agents on which the run invoked executeTask.
C29_AgentsUsedAreParticipants ==
  \A r \in RunIds :
    runs[r].combinedData # Undefined =>
      Range(runs[r].combinedData.metadata.agentsUsed) = runs[r].invoked

\* ------------------------------------------------- BaseAgent: task status
\* C30: a task whose execution attempt has ended is not left in_progress:
\* an agent with no executeTask call under way holds no current task, or
\* one whose status is completed or failed.
C30_TasksReachTerminalStatus ==
  \A a \in AgentIds :
    (/\ agent[a].currentTask # Undefined
     /\ ~\E e \in executing : e.agent = a /\ e.via = "queue")
      => agent[a].currentTask.status \in {"completed", "failed"}

\* ------------------------------------------ executeTask failures, both paths
\* the executeTask invocation e settled by throwing in this step: on the
\* queue path handleRequest did not get to its task-completed event, on the
\* direct path the run's catch block counted a failure
ExecuteTaskThrew(e) ==
  /\ e \in executing
  /\ e \notin executing'
  /\ IF e.via = "queue"
     THEN events'[<< "task-completed", e.agent >>]
            = events[<< "task-completed", e.agent >>]
     ELSE runs'[e.owner].agentErrors = runs[e.owner].agentErrors + 1

AgentErrorEvents(ev) ==
  ev[<< "agent-error", "a1" >>] + ev[<< "agent-error", "a2" >>]
    + ev[<< "agent-error", Coordinator >>]

\* C31: whenever an agent's executeTask throws, on the queue path or on the
\* direct path, the step that catches it emits one agent-error event and
\* leaves that agent in status error.
C31_Step ==
  \A e \in executing :
    ExecuteTaskThrew(e) =>
      /\ AgentErrorEvents(events') = AgentErrorEvents(events) + 1
      /\ agent'[e.agent].status = "error"
C31_ThrowSetsAgentError == [][C31_Step]_vars

\* ------------------------------------------------ AgentHub: delivery order
\* message m is shifted off the hub queue / handed to processMessage in
\* this step
ShiftedNow(m) == dequeued'[m] > dequeued[m]
DeliveredNow(m) == delivered'[m] > delivered[m]

\* the id message m is addressed to: read off the queue or, for a message
\* enqueued in this step, off the call that enqueues it (the `to` given to
\* sendMessage, the agent assignTask selects, the i-th key for broadcastMessage)
QueuedAt(queue, m) == CHOOSE i \in 1..Len(queue) : queue[i].id = m
AddressedTo(m) ==
  IF CountIn(messageQueue, m) > 0
  THEN messageQueue[QueuedAt(messageQueue, m)].to
  ELSE CASE lastOp'.op = "sendMessage" -> lastOp'.to
         [] lastOp'.op = "assignTask" ->
              selectBestAgent(
                findSuitableAgents(agents, agent, lastOp'.taskType),
                lastOp'.priority).id
         [] OTHER -> agents[m - lastOp'.id + 1]
Unregistered(m) == ~SeqContains(agents', AddressedTo(m))

\* C33: messages leave the hub queue in the order sendMessage enqueued them
\* (ids count the enqueue order), whatever their priority and target: when
\* a message is shifted every earlier one has been shifted, and when it is
\* passed to processMessage no earlier one is still to be passed.  A message
\* for an unregistered id is shifted and dropped without a processMessage
\* call, and the loop goes on to the next message within the same step.
C33_Step ==
  \A m \in MessageIds :
    /\ dequeued'[m] <= 1
    /\ delivered'[m] <= dequeued'[m]
    /\ ShiftedNow(m) =>
         /\ \A k \in 1..(m - 1) : dequeued'[k] = 1
         /\ CountIn(messageQueue', m) = 0
         /\ DeliveredNow(m) <=> ~Unregistered(m)
         /\ ~Unregistered(m) =>
              LET received == agentMessageQueue'[AddressedTo(m)]
              IN /\ received # << >>
                 /\ received[Len(received)].id = m
                 /\ \A k \in 1..(m - 1) : ~DeliveredNow(k)
         /\ Unregistered(m) =>
              \/ messageQueue' = << >>
              \/ \E k \in (m + 1)..(nextId' - 1) : ShiftedNow(k)
C33_FifoDelivery == [][C33_Step]_vars

\* a first message, then a low-priority one for an unregistered id, then a
\* high-priority task: the first and the third were delivered, the second
\* was dropped
C33_Witness ==
  /\ lastOp.op = "assignTask"
  /\ lastOp.priority = 6
  /\ lastOp.id = 3
  /\ delivered[1] = 1
  /\ dequeued[2] = 1
  /\ delivered[2] = 0
  /\ delivered[3] = 1

\* C36: once the promise of a sendMessage call has resolved, the message
\* that call enqueued has been shifted off the hub queue.
C36_ResolvedMeansDequeued ==
  \A m \in MessageIds : call[m] = "returned" => dequeued[m] = 1

\* ------------------------------- MultiAgentICPEngine: the registered agents
\* the seven agents initializeAgents registers, in registration order, each
\* with the inputTypes of the capabilities its constructor passes to super()
EngineAgentIds ==
  << "customer-intelligence-agent", "market-research-agent",
     "firmographic-agent", "technographic-agent", "psychographic-agent",
     "target-company-discovery-agent", "icp-synthesis-agent" >>

EngineCapabilities ==
  [id \in Range(EngineAgentIds) |->
     CASE id = "customer-intelligence-agent" ->
            << Cap(<< "customer-case-studies", "testimonials", "success-stories" >>),
               Cap(<< "testimonials", "reviews" >>),
               Cap(<< "case-studies", "success-stories" >>) >>
       [] id = "market-research-agent" ->
            << Cap(<< "market-data", "industry-reports", "news-articles" >>),
               Cap(<< "market-data", "industry-reports" >>),
               Cap(<< "competitor-data", "market-reports" >>),
               Cap(<< "regulatory-documents", "compliance-reports" >>) >>
       [] id = "firmographic-agent" ->
            << Cap(<< "company-data", "employee-data", "size-metrics" >>),
               Cap(<< "financial-data", "revenue-data", "funding-data" >>),
               Cap(<< "funding-data", "investment-data", "startup-data" >>),
               Cap(<< "location-data", "geographic-data", "regional-data" >>),
               Cap(<< "industry-data", "vertical-data", "sector-data" >>) >>
       [] id = "technographic-agent" ->
            << Cap(<< "tech-data", "tool-data", "platform-data" >>),
               Cap(<< "integration-data", "api-data", "connectivity-data" >>),
               Cap(<< "maturity-data", "transformation-data", "adoption-data" >>),
               Cap(<< "platform-data", "infrastructure-data", "requirements-data" >>) >>
       [] id = "psychographic-agent" ->
            << Cap(<< "customer-feedback", "pain-point-data", "challenge-data" >>),
               Cap(<< "buying-data", "trigger-data", "motivation-data" >>),
               Cap(<< "decision-data", "process-data", "stakeholder-data" >>),
               Cap(<< "budget-data", "spending-data", "allocation-data" >>) >>
       [] id = "target-company-discovery-agent" ->
            << Cap(<< "icp-criteria", "company-database", "market-data" >>),
               Cap(<< "company-list", "validation-criteria", "icp-profile" >>),
               Cap(<< "company-data", "market-segments", "opportunity-data" >>) >>
       [] OTHER ->
            << Cap(<< "combined-research-data", "icp-criteria" >>),
               Cap(<< "icp-profiles", "validation-criteria" >>),
               Cap(<< "icp-profiles", "research-data" >>) >>]

\* the hub's agents map after the MultiAgentICPEngine constructor
EngineRegistry ==
  [id \in Range(EngineAgentIds) |-> NewAgent(id, EngineCapabilities[id])]

\* the task types coordinateICPAnalysis and analyzeICP dispatch
Synthesis == "icp-profile-synthesis"
DispatchedTypes == GatheringTypes \cup {TCD, Synthesis}

\* every input type some registered agent declares
DeclaredInputTypes ==
  UNION { UNION { Range(EngineCapabilities[id][i].inputTypes) :
                    i \in 1..Len(EngineCapabilities[id]) } :
          id \in Range(EngineAgentIds) }

\* the priorities the engine dispatches with: priorityWeights, and 10 for
\* the synthesis task
DispatchPriorities == {5, 6, 7, 8, 9, 10}

\* the dispatch idiom of coordinateICPAnalysis and analyzeICP on the engine's
\* hub: findSuitableAgents(taskType), then selectBestAgent on a non-empty
\* list; on an empty list no agent is selected and no task is executed
Dispatch(taskType, priority) ==
  /\ candidates' = findSuitableAgents(EngineAgentIds, EngineRegistry, taskType)
  /\ selected' = selectBestAgent(candidates', priority)
  /\ lastOp' = [op |-> "dispatch", taskType |-> taskType, priority |-> priority]
  /\ UNCHANGED engineVars
  /\ UNCHANGED << eventCallbacks, agents, messageQueue, isProcessing, agent,
                  agentMessageQueue,
                  executing, call, runs, events, dequeued, delivered,
                  execCalls, idleRequests, nextId, calls >>

DispatchTask ==
  \E t \in DispatchedTypes \cup DeclaredInputTypes, p \in DispatchPriorities :
    Dispatch(t, p)

SpecDispatch == Init /\ [][DispatchTask]_vars

\* C34: for each task type the engine dispatches, some registered agent
\* can handle it: the dispatch finds a suitable agent and selects one.
C34_DispatchedTypesHaveAnAgent ==
  (lastOp.op = "dispatch" /\ lastOp.taskType \in DispatchedTypes) =>
    /\ candidates # << >>
    /\ selected # Undefined

\* ------------------------------------------- BaseAgent: the two queues
\* C37: the messageQueue of the record getStatus returns, which is what
\* selectBestAgent compares, holds as many messages as the agent has
\* received through processMessage.
C37_StatusQueueCountsReceived ==
  \A a \in AgentIds :
    Len(getStatus(agent, a).messageQueue) = Len(agentMessageQueue[a])

\* ------------------------------------------------- the plan node on its own
MaxExtracted == 5

\* generateAlternativeSearchQueries, by the number of queries it returns:
\* `problematic` of the unanswered questions match the version pattern, and
\* the LLM answers with `lines` usable lines or throws
generateAlternativeSearchQueries(subQueries, previousAttempts, problematic, response) ==
  LET unansweredQueries == Cardinality(Unanswered(subQueries))
  IN IF previousAttempts >= 2 /\ problematic > 0
     THEN problematic
     ELSE IF response.ok
          THEN Len(FirstN(Indices(response.lines), MAX_SEARCH_QUERIES))
          ELSE Len(FirstN(Indices(unansweredQueries), MAX_SEARCH_QUERIES))

\* what the plan node can be entered with: on the first round no
\* sub-queries yet; on a later round the sub-queries of the first round,
\* each unanswered or answered, and the rounds made so far
PlannedSubQueries(n) ==
  { [i \in 1..n |-> [question |-> i, answered |-> i \in answered,
                     confidence |-> IF i \in answered THEN 5 ELSE 0]] :
      answered \in SUBSET (1..n) }
PlanInputs ==
  {[SearchStateDefault EXCEPT !.phase = "planning"]} \cup
  {[SearchStateDefault EXCEPT !.phase = "planning",
                              !.subQueries = Some(subQueries),
                              !.searchAttempt = searchAttempt] :
     subQueries \in UNION {PlannedSubQueries(n) : n \in 1..MaxExtracted},
     searchAttempt \in 1..MAX_SEARCH_ATTEMPTS}
InitPlan ==
  \E st \in PlanInputs :
    /\ InitHub(DefaultCapabilities)
    /\ InitEngine(st, "plan", 1)
    /\ InitFunctions(<< >>, Undefined)

\* one execution of the plan node, with every outcome of the call it awaits
PlanAlone ==
  /\ \E extraction \in
          (IF state.subQueries = Undefined
           THEN {[array |-> FALSE, n |-> 0]}
                  \cup {[array |-> TRUE, n |-> n] : n \in 0..MaxExtracted}
           ELSE {[array |-> TRUE, n |-> 0]}),
        problematic \in
          (IF state.subQueries = Undefined THEN {0}
           ELSE 0..Cardinality(Unanswered(state.subQueries.value))),
        response \in {[ok |-> FALSE, lines |-> 0]}
                       \cup {[ok |-> TRUE, lines |-> n] : n \in 0..MaxExtracted} :
       LET alternatives ==
             IF state.searchAttempt > 0
             THEN generateAlternativeSearchQueries(
                    state.subQueries.value, state.searchAttempt,
                    problematic, response)
             ELSE 0
           result == plan(state, extraction, alternatives)
       IN /\ Step("plan", result)
          /\ retrieval' = IF "searchQueries" \in DOMAIN result.update
                          THEN [retrieval EXCEPT !.issued = << >>]
                          ELSE retrieval
  /\ lastCheck' = Undefined

SpecPlan == InitPlan /\ [][PlanAlone]_vars

\* C40: the plan node never places more than MAX_SEARCH_QUERIES queries in
\* searchQueries, on the first round and on every later one.
C40_AtMostMaxSearchQueries ==
  Len(QueriesOf(state)) <= MAX_SEARCH_QUERIES

\* --------------------------------------- the answer state of the sub-queries
\* a run whose answer checks grade below, at and above the threshold, for
\* up to two sub-questions and one search result
AnswerConfidences == {2, MIN_ANSWER_CONFIDENCE, 5}
FindOneSource == SearchNode({<< Source("u1", "markdown") >>})
GradeAnswers == Analyze(AnswerConfidences)

NextAnswers ==
  \/ Search
  \/ Understand
  \/ PlanSources
  \/ FindOneSource
  \/ Scrape
  \/ GradeAnswers
  \/ Synthesize
  \/ HandleError
  \/ Complete
  \/ RecursionLimitReached

SpecAnswers == Init /\ [][NextAnswers]_vars

\* C35: each sub-query is marked answered exactly when its confidence is
\* at least MIN_ANSWER_CONFIDENCE, so that no more sub-queries reach the 0.3
\* of analyze's partialAnswers than are answered (hasPartialInfo is false);
\* and over a step an answered sub-query stays answered.
C35_State ==
  /\ \A i \in 1..Len(SubQueriesOf(state)) :
       SubQueriesOf(state)[i].answered
         <=> SubQueriesOf(state)[i].confidence >= MIN_ANSWER_CONFIDENCE
  /\ ~PartialInfo(SubQueriesOf(state))
C35_Step ==
  (state.subQueries # Undefined /\ state'.subQueries # Undefined) =>
    \A i \in 1..Len(state.subQueries.value) :
      state.subQueries.value[i].answered =>
        /\ i <= Len(state'.subQueries.value)
        /\ state'.subQueries.value[i].answered
MaxListeners == 2

AddEventListener(callback) ==
  /\ Len(eventCallbacks) < MaxListeners
  /\ eventCallbacks' = addEventListener(eventCallbacks, callback)
  /\ lastOp' = [op |-> "addEventListener", callback |-> callback]
  /\ UNCHANGED engineVars
  /\ UNCHANGED << agents, messageQueue, isProcessing, agent, agentMessageQueue,
                  executing, call, runs, events, dequeued, delivered,
                  execCalls, idleRequests, nextId, calls, candidates, selected >>

RemoveEventListener(callback) ==
  /\ eventCallbacks' = removeEventListener(eventCallbacks, callback)
  /\ lastOp' = [op |-> "removeEventListener", callback |-> callback]
  /\ UNCHANGED engineVars
  /\ UNCHANGED << agents, messageQueue, isProcessing, agent, agentMessageQueue,
                  executing, call, runs, events, dequeued, delivered,
                  execCalls, idleRequests, nextId, calls, candidates, selected >>

AddListener == \E callback \in {Listener, Thrower} : AddEventListener(callback)
RemoveListener ==
  \E callback \in Range(eventCallbacks) : RemoveEventListener(callback)
Rejects == \E m \in MessageIds : DrainRejects(m)

\* the message-queue path of a hub whose clients register listeners
NextListeners ==
  \/ Register
  \/ AddListener
  \/ RemoveListener
  \/ (calls < MaxOps /\ Send)
  \/ Resume
  \/ Rejects
  \/ RequestReturns
  \/ RequestThrows

SpecListeners == Init /\ [][NextListeners]_vars

\* what an operation leaves behind apart from its events: agent statuses
\* and tasks, the queues, the pending executeTask calls and how each
\* sendMessage call stands (pending, resolved, rejected)
Core(s) ==
  [agent |-> s.agent, messageQueue |-> s.messageQueue,
   agentMessageQueue |-> s.agentMessageQueue, executing |-> s.executing,
   isProcessing |-> s.isProcessing, call |-> s.call]
Quiet(s) == [s EXCEPT !.eventCallbacks = << >>]
RequestFor(a) ==
  [id |-> nextId, from |-> "client", to |-> a, type |-> "request",
   taskType |-> CI, priority |-> "low"]

\* C32: events are observational: whatever listeners are registered, a
\* sendMessage call and the settling of an executeTask call leave the
\* agents, the queues and the call's own outcome as they would with no
\* listener registered.
C32_ListenersDoNotChangeOutcomes ==
  /\ nextId \in MessageIds =>
       \A a \in Range(agents) :
         Core(sendMessage(Cur, RequestFor(a)))
           = Core(sendMessage(Quiet(Cur), RequestFor(a)))
  /\ \A e \in {x \in executing : x.via = "queue"} :
       /\ Core(handleRequestReturned(Cur, e))
            = Core(handleRequestReturned(Quiet(Cur), e))
       /\ Core(handleRequestThrew(Cur, e))
            = Core(handleRequestThrew(Quiet(Cur), e))


\* ------------------------- MultiAgentICPEngine: analyzeICPWithStreaming
\* the priority of the engine's synthesis task
SynthesisPriority == 10

\* how many times emitEvent's forEach calls `callback` for one event
Deliveries(callbacks, callback) ==
  Cardinality({i \in DOMAIN callbacks : callbacks[i] = callback})

\* analyzeICPWithStreaming from its entry to the first await: the engine
\* registers onProgress, then analyzeICP passes the same callback on to
\* coordinateICPAnalysis
analyzeICPWithStreaming(s, r, onProgress) ==
  coordinateICPAnalysis(
    [s EXCEPT !.eventCallbacks = IF onProgress = NoCallback THEN @
                                 ELSE addEventListener(@, onProgress),
              !.runs[r].streaming = TRUE,
              !.runs[r].before = s.eventCallbacks],
    r, onProgress)

\* onChunk or the rethrown error, then the finally block of
\* analyzeICPWithStreaming
streamingSettled(s, r, outcome) ==
  LET onProgress == s.runs[r].onProgress
  IN [s EXCEPT !.eventCallbacks = IF onProgress = NoCallback THEN @
                                  ELSE removeEventListener(@, onProgress),
               !.runs[r].pc = outcome]

\* analyzeICP after coordinateICPAnalysis resolved: the synthesis task goes
\* to the best suitable agent by a direct executeTask call, or is skipped
analyzeICPResumed(s, r) ==
  LET suitableAgents == findSuitableAgents(s.agents, s.agent, Synthesis)
  IN IF Len(suitableAgents) > 0
     THEN [s EXCEPT
             !.executing = @ \cup
               {[agent |-> selectBestAgent(suitableAgents, SynthesisPriority).id,
                 via |-> "direct", owner |-> r]},
             !.runs[r].pc = "synthesis"]
     ELSE streamingSettled(s, r, "settled")

AnalyzeICPWithStreaming(r) ==
  /\ runs[r].pc = "none"
  /\ \A q \in RunIds : q < r => runs[q].pc # "none"
  /\ Becomes(analyzeICPWithStreaming(Cur, r, OnProgress))
  /\ lastOp' = [op |-> "analyzeICPWithStreaming", run |-> r]
  /\ UNCHANGED << calls, candidates, selected >>

AnalyzeICPResumes(r) ==
  /\ runs[r].streaming
  /\ runs[r].pc = "done"
  /\ Becomes(analyzeICPResumed(Cur, r))
  /\ UNCHANGED << calls, lastOp, candidates, selected >>

SynthesisTaskReturns(e) ==
  /\ e.via = "direct"
  /\ runs[e.owner].pc = "synthesis"
  /\ Becomes(streamingSettled([Cur EXCEPT !.executing = @ \ {e}],
                              e.owner, "settled"))
  /\ UNCHANGED << calls, lastOp, candidates, selected >>

SynthesisTaskThrows(e) ==
  /\ e.via = "direct"
  /\ runs[e.owner].pc = "synthesis"
  /\ Becomes(streamingSettled([Cur EXCEPT !.executing = @ \ {e}],
                              e.owner, "failed"))
  /\ UNCHANGED << calls, lastOp, candidates, selected >>

\* a hub like the engine's, with a synthesis agent next to a gathering agent
StreamingCapabilities ==
  [a \in AgentIds |->
     IF a = "a1" THEN << Cap(<< CI, MR, FA, TA, PA, TCD >>) >>
     ELSE << Cap(<< Synthesis >>) >>]
InitStreaming ==
  \E capabilities \in {StreamingCapabilities, SynthesisCapabilities} :
    InitWith(capabilities)

\* one streaming analysis on a hub that other clients listen to; they
\* registered before the call and leave the list alone afterwards
NoRunYet == \A r \in RunIds : runs[r].pc = "none"
NextStreaming ==
  \/ Register
  \/ (NoRunYet /\ AddEventListener(Listener))
  \/ (NoRunYet /\ RemoveEventListener(Listener))
  \/ \E r \in RunIds : AnalyzeICPWithStreaming(r)
  \/ GatheringReturns
  \/ GatheringThrows
  \/ DiscoveryReturns
  \/ DiscoveryThrows
  \/ \E r \in RunIds : AnalyzeICPResumes(r)
  \/ \E e \in executing : SynthesisTaskReturns(e)
  \/ \E e \in executing : SynthesisTaskThrows(e)

SpecStreaming == InitStreaming /\ [][NextStreaming]_vars

\* C38: while a streaming analysis is under way, emitEvent calls onProgress
\* once for each event (the callback stands once in the list forEach walks
\* whenever the coordination waits for an agent, so also when the resuming
\* step emits), and once the call has settled, by return or by throw, the
\* listener list is what it was when the call was made.
C38_OnProgressDeliveredOnce ==
  \A r \in RunIds :
    runs[r].streaming =>
      /\ runs[r].pc \in {"phase1", "phase2"} =>
           Deliveries(eventCallbacks, OnProgress) = 1
      /\ runs[r].pc \in {"settled", "failed"} =>
           eventCallbacks = runs[r].before

\* the second half alone: the two finally blocks take out what was added
StreamingRestoresListeners ==
  \A r \in RunIds :
    (runs[r].streaming /\ runs[r].pc \in {"settled", "failed"}) =>
      eventCallbacks = runs[r].before


\* ----------------- AgentHub over its message queue: coordinateICPAnalysis
\* the timeout of waitForTasks, counted in polls of checkTask
MaxPolls == 2

\* dataGatheringTasks.map(task => this.assignTask(task)): each assignTask
\* runs to its first await before the next one starts; for a type no agent
\* can take, its promise is rejected
RECURSIVE AssignAll(_, _, _)
AssignAll(s, r, i) ==
  IF i > Len(dataGatheringTasks) THEN s
  ELSE LET taskType == dataGatheringTasks[i]
       IN IF Len(findSuitableAgents(s.agents, s.agent, taskType)) = 0
          THEN AssignAll([s EXCEPT !.runs[r].threw = @ \cup {taskType}],
                         r, i + 1)
          ELSE AssignAll(
                 [assignTask(s, taskType, priorityWeights[taskType])
                    EXCEPT !.runs[r].assigned = Append(@, s.nextId)],
                 r, i + 1)

\* the queue-based coordinateICPAnalysis from its entry to
\* `await Promise.all(dataGatheringPromises)`
coordinateICPAnalysisQueued(s, r) ==
  AssignAll(
    [s EXCEPT !.events = Emit(Emit(Emit(@, "agent-started", Coordinator),
                                   "data-shared", Coordinator),
                              "data-shared", Coordinator),
              !.runs[r].pc = "assigning"],
    r, 1)

AssignmentRejected(s, r) ==
  \/ s.runs[r].threw # {}
  \/ \E m \in Range(s.runs[r].assigned) : s.call[m] = "threw"
AssignmentsResolved(s, r) ==
  \A m \in Range(s.runs[r].assigned) : s.call[m] = "returned"

\* Promise.all over the assignTask promises has settled: a rejection leaves
\* through finally, else waitForTasks starts a waitForTask for every id
assignmentsSettled(s, r) ==
  IF AssignmentRejected(s, r)
  THEN [s EXCEPT !.runs[r].pc = "failed"]
  ELSE [s EXCEPT !.events = Emit(@, "data-shared", Coordinator),
                 !.runs[r].pc = "waiting",
                 !.runs[r].polls = 0]

\* one run of checkTask: past the timeout it rejects, else it only sets the
\* next timer; no branch calls resolve or looks at the task
checkTask(s, r) ==
  IF s.runs[r].polls >= MaxPolls
  THEN [s EXCEPT !.runs[r].pc = "timedOut"]
  ELSE [s EXCEPT !.runs[r].polls = @ + 1]

CoordinateICPAnalysisQueued(r) ==
  /\ runs[r].pc = "none"
  /\ \A q \in RunIds : q < r => runs[q].pc # "none"
  /\ nextId + Len(dataGatheringTasks) - 1 \in MessageIds
  /\ Becomes(coordinateICPAnalysisQueued(Cur, r))
  /\ lastOp' = [op |-> "coordinateICPAnalysis", run |-> r]
  /\ UNCHANGED << calls, candidates, selected >>

AssignmentsSettle(r) ==
  /\ runs[r].pc = "assigning"
  /\ AssignmentRejected(Cur, r) \/ AssignmentsResolved(Cur, r)
  /\ Becomes(assignmentsSettled(Cur, r))
  /\ UNCHANGED << calls, lastOp, candidates, selected >>

CheckTask(r) ==
  /\ runs[r].pc = "waiting"
  /\ Becomes(checkTask(Cur, r))
  /\ UNCHANGED << calls, lastOp, candidates, selected >>

\* one coordination over the message queue
NextQueueCoord ==
  \/ Register
  \/ \E r \in RunIds : CoordinateICPAnalysisQueued(r)
  \/ Resume
  \/ RequestReturns
  \/ RequestThrows
  \/ \E r \in RunIds : AssignmentsSettle(r)
  \/ \E r \in RunIds : CheckTask(r)

SpecQueueCoord == Init /\ [][NextQueueCoord]_vars

TaskCompletedEvents(ev) ==
  ev[<< "task-completed", "a1" >>] + ev[<< "task-completed", "a2" >>]

\* every gathering task was assigned and every assigned task was completed
\* by its agent
AllAssignedCompleted(r) ==
  /\ Len(runs[r].assigned) = Len(dataGatheringTasks)
  /\ TaskCompletedEvents(events) = Len(runs[r].assigned)

\* C39: waitForTask resolves once the agent has completed the task: a
\* coordination over the queue whose assigned tasks were all completed does
\* not end in the timeout rejection.
C39_CompletedTasksResolveTheWait ==
  \A r \in RunIds :
    runs[r].pc = "timedOut" => ~AllAssignedCompleted(r)

\* what the code does instead: the wait is never left except by the timeout
WaitEndsOnlyInTimeout ==
  \A r \in RunIds : runs[r].pc \notin {"done", "phase2"}

====
